---- MODULE Spec2Model ----
(***************************************************************************)
(* Object extraction of SyConn (syconn_deprecated/processing/               *)
(* objectextraction.py): chunk-wise connected components, allocation of    *)
(* global id bases, make_unique_labels, make_merge_list, apply_merge_list. *)
(*                                                                         *)
(* Python lists and the per-position arrays are 0-based; the sequences     *)
(* below are 1-based, so position p of the source is position p + 1 here.  *)
(* The remap table is a function on 0..max_label, like the numpy array.    *)
(***************************************************************************)
EXTENDS Integers, Sequences, FiniteSets, TLC

(* ------------------------------ bounds -------------------------------- *)
MaxChunks == 3       \* longest chunk_list; the chunk ids are 0..MaxChunks-1
MaxCount == 2        \* most connected components found in one chunk
MaxLabel == 4        \* largest max_label handed to make_merge_list
MaxEdges == 2        \* longest stitch list handed to make_merge_list
MaxParams == 3       \* most parameter batches handed to QSUB_script
MaxWindow == 4       \* most voxels of a window handed to kernel
MaxSide == 3         \* longest axis of an array handed to process_block
MaxSigma == 3        \* largest sigma, in units of 1 / SigmaDenominator
MaxOffset == 2       \* largest offset of a box on one axis
MaxBoxSize == 3      \* largest size of a box on one axis
MaxStride == 2       \* largest stride handed to combine_voxels
MaxBatches == 2      \* most batches whose scripts are followed
MaxSsvs == 4         \* most SSVs in the batch of QSUB_predict_axoness_semseg
MaxGpus == 2         \* most GPUs handed to predict_dataset
RecursionLimit == 3  \* most frames of a call: the recursion limit of the interpreter
NbPredChunks == 3    \* chunks of the chunk dataset predict_dataset works on

(* ------------------------ program constants --------------------------- *)
\* hdf5names, the list of channels the run extracts
Hdf5Names == <<"sj">>
\* largest value of the np.int32 arrays nb_cc_dict and max_nb_dict
Int32Max == 2147483647
\* IDs and keys are written in 16-bit digits, most significant digit first:
\* an ID below 2^32 has two digits, a 64-bit key has four
DigitBase == 65536
\* the sigmas of the gaussian filters are multiples of 1 / 8
SigmaDenominator == 8
\* number of nodes of the skeletons handed to sparsify_skelcv
NbSkelNodes == 4

VARIABLES
    chunk_list,        \* list of chunk ids the run works on
    qsub,              \* TRUE: qsub_pe/qsub_queue given, jobs run through QSUB_script
    cc_count,          \* chunk id -> channel -> number of components labelled in the chunk
    cc_labels,         \* chunk id -> channel -> label array stored for the chunk
    cc_info_list,      \* results_as_list of gauss_threshold_connected_components
    nb_cc_dict,        \* channel -> array of per-position component counts
    max_nb_dict,       \* channel -> array of per-position bases
    max_labels,        \* channel -> number of global ids
    pc,                \* position in from_probabilities_to_objects
    stitch_list,       \* channel -> list of stitch edges
    merge_dict,        \* channel -> dictionary node -> representative
    merge_list_dict,   \* channel -> remap table (array over 0..max_label)
    merge_list_dict_pkl, \* content of the file merge_list_dict.pkl
    failed_jobs,       \* chunk ids whose connected-component job left no result file
    \* ---- QSUB_script (multi_proc/QSUB_MAIN.py)
    params,            \* list of parameter batches, one job per batch
    ident,             \* the ident argument
    qs_pc,             \* position in QSUB_script
    ii,                \* loop index of the submission loop
    job,               \* batch index -> state of its job at the scheduler
    other_listed,      \* TRUE: qstat lists a foreign entry that holds job_name[:10]
    \* ---- the jobs of from_probabilities_to_objects
    call,              \* the stage function that waits for its jobs ("" if none)
    started,           \* the jobs <<stage, chunk id>> that have been started
    finished,          \* the jobs <<stage, chunk id>> that have returned
    stitch_results,    \* chunk id -> result of the chunk's make_stitch_list job
    \* ---- one stage function run through either job runner
    fn,                \* the stage function that is called
    fn_pc,             \* "called" or "returned"
    worker_results,    \* chunk id -> what the worker returns for the chunk's batch
    stale_out,         \* results lying in /home/sdorkenw/QSUB/extract_ids_folder/out/
    worker_runs,       \* chunk id -> number of runs of the worker on the batch
    aggregated,        \* the aggregated result of the stage function
    \* ---- two pipeline runs on one chunk dataset
    suffix,            \* run -> the suffix argument of the run
    run_table,         \* run -> the merge_list_dict make_merge_list returned to the run
    files,             \* path -> content of the file (<<>>: no such file)
    apply_pc,          \* run -> position in apply_merge_list
    loaded,            \* run -> chunk id -> the table the chunk's worker loaded
    \* ---- kernel (extraction/block_processing.py)
    chunk,             \* the window handed to kernel, as the list of its voxels
    center_id,         \* the ID of the centre voxel
    kernel_pc,         \* "called" or "returned"
    out,               \* the value kernel returned
    \* ---- process_block, process_block_nonzero (extraction/block_processing.py)
    block_fn,          \* the function that is called
    python,            \* major version of the interpreter: 2 or 3
    edges,             \* voxel -> nonzero for an edge voxel
    arr,               \* voxel -> the ID of the voxel
    arr_shape,         \* arr.shape
    stencil,           \* the stencil argument
    block_pc,          \* "called", "returned" or the exception raised
    block_out,         \* the array the function returned
    \* ---- the overlap of gauss_threshold_connected_components
    hdf5names,         \* the hdf5names argument
    sigmas,            \* the sigmas argument: per channel the sigma of each axis, or "None"
    overlap,           \* the overlap argument, then the overlap that is used
    stitch_overlap,    \* the stitch overlap that is returned
    overlap_pc,        \* "called", "returned" or "Exception"
    \* ---- calculate_chunk_numbers_for_box
    box,               \* the requested box: offset and size as they are handed in
    box_offset,        \* the offset array (changed in place)
    box_size,          \* the size array (changed in place)
    chunk_size,        \* cset.chunk_size
    coord_dict,        \* cset.coord_dict: coordinate of a chunk -> chunk id
    box_pc,            \* "called", "returned" or "KeyError"
    box_chunk_list,    \* chunk_list as it is returned
    box_translator,    \* translator as it is returned
    \* ---- the remapping dictionaries of extract_voxels
    chunk_results,     \* chunk id -> the result of the chunk's job (channel -> dictionary)
    voxel_results,     \* the collected results, in the order of their collection
    channel,           \* position of hdf5_name in hdf5names
    result_nb,         \* number of results the inner loop has worked off
    remap_dict,        \* remap_dict of the channel at work
    remapping_dict_pkl,\* channel -> content of its remapping_dict.pkl
    voxels_pc,         \* "collected", "loop", or "returned"
    \* ---- the job batches of combine_voxels
    so_ids,            \* remap_dict.keys(): the object ids, in the order of the dictionary
    stride,            \* the stride argument
    so_id_dict,        \* bucket key -> list of the ids of the bucket
    so_nb,             \* number of ids the loop has put into a bucket
    so_id_blocks,      \* the so_id_block of every batch appended to multi_params
    combine_pc,        \* "buckets" or "batches"
    \* ---- the batches of QSUB_script and their scripts (QSUB_scripts/)
    batches,           \* the params argument of QSUB_script
    submitted,         \* number of batches submitted (the loop index ii)
    storage,           \* path -> content of the storage file: the pickles written to it
    sh,                \* batch -> the command line of its job_%d.sh
    script_pc,         \* batch -> position in the script of its job
    args,              \* batch -> args of the script
    written,           \* batch -> the paths of the files its script has written
    \* ---- sparsify_skelcv (proc/skeleton.py)
    skel,              \* the input skeleton: its nodes and edges
    position,          \* node -> x coordinate of the node, in nm (scale 1, y = z = 0)
    skel_nx,           \* the graph the loop works on
    visiting_nodes,    \* the nodes of the pass that are still to be visited
    change,            \* number of nodes removed in the pass
    skel_pc,           \* "while", "for" or "returned"
    \* ---- two concurrent invocations of QSUB_script
    job_names,         \* invocation -> its job_name, as the list of its characters
    inv_pc,            \* invocation -> "submit", "polling" or "returned"
    inv_jobs,          \* invocation -> batch -> state of the job at the scheduler
    \* ---- apply_merge_list, extract_voxels: the job runner guard
    guard_fn,          \* the function that is called
    guard_chunk_list,  \* the chunk_list argument
    qsub_given,        \* TRUE: qsub_pe or qsub_queue is not None
    qsub_available,    \* the flag __QSUB__ of the job runner module
    disk_at_call,      \* path -> state of the file or folder when the function is called
    disk,              \* path -> state of the file or folder
    block_steps,       \* block_steps, as the list of its entries
    path_slices,       \* per entry of multi_params: chunk id and bounds of its slice
    guard_pc,          \* position in the function, or the exception raised
    \* ---- QSUB_predict_axoness_semseg (batchjob_scripts/)
    ch,                \* args[0]: the SSV ids of the batch
    failing_ssvs,      \* the SSVs whose prediction fails
    semseg_res,        \* sub-chunk -> what semsegaxoness_predictor returned for it
    missing,           \* np.concatenate(res), as a set
    stdout,            \* the lines the script has printed
    path_out_file,     \* the state of the result file: "absent" or "written"
    semseg_pc,         \* position in the script
    \* ---- predict_dataset, pred_dataset (handler/prediction.py)
    call_stack,        \* the functions of the frames of the call, the entry first
    gpu_ids,           \* the gpu_ids argument: an int, or the tuple of the ids
    overwrite,         \* the overwrite argument
    pred_chunks,       \* chunk -> state of its prediction in the chunk dataset
    chunk_nb,          \* number of chunks the loop of _pred_dataset has worked off
    threads,           \* position in gpu_ids -> state of the thread started for the GPU
    predict_pc         \* position in the call, or the exception it ended with

\* the variables of from_probabilities_to_objects
pipeline_vars == <<chunk_list, qsub, cc_count, cc_labels, cc_info_list, nb_cc_dict,
              max_nb_dict, max_labels, pc, stitch_list, merge_dict,
              merge_list_dict, merge_list_dict_pkl, failed_jobs>>
\* the variables of the other programs, left alone by the pipeline
qsub_vars == <<params, ident, qs_pc, ii, job, other_listed>>
job_vars == <<call, started, finished, stitch_results>>
paths_vars == <<fn, fn_pc, worker_results, stale_out, worker_runs, aggregated>>
suffix_vars == <<suffix, run_table, files, apply_pc, loaded>>
kernel_vars == <<chunk, center_id, kernel_pc, out>>
block_vars == <<block_fn, python, edges, arr, arr_shape, stencil, block_pc, block_out>>
overlap_vars == <<hdf5names, sigmas, overlap, stitch_overlap, overlap_pc>>
box_vars == <<box, box_offset, box_size, chunk_size, coord_dict, box_pc,
        box_chunk_list, box_translator>>
voxels_vars == <<chunk_results, voxel_results, channel, result_nb, remap_dict,
        remapping_dict_pkl, voxels_pc>>
combine_vars == <<so_ids, stride, so_id_dict, so_nb, so_id_blocks, combine_pc>>
batch_vars == <<batches, submitted, storage, sh, script_pc, args, written>>
skel_vars == <<skel, position, skel_nx, visiting_nodes, change, skel_pc>>
two_vars == <<job_names, inv_pc, inv_jobs>>
guard_vars == <<guard_fn, guard_chunk_list, qsub_given, qsub_available, disk_at_call, disk, block_steps, path_slices, guard_pc>>
semseg_vars == <<ch, failing_ssvs, semseg_res, missing, stdout, path_out_file, semseg_pc>>
predict_vars == <<call_stack, gpu_ids, overwrite, pred_chunks, chunk_nb, threads, predict_pc>>
\* the variables of the functions examined on their own
tools_vars == <<block_vars, overlap_vars, box_vars, voxels_vars, combine_vars, batch_vars, skel_vars, two_vars, guard_vars, semseg_vars, predict_vars>>
other_vars == <<qsub_vars, job_vars, paths_vars, suffix_vars, kernel_vars, tools_vars>>
\* the variables QSUB_script leaves alone
not_qsub_vars == <<pipeline_vars, job_vars, paths_vars, suffix_vars, kernel_vars,
        tools_vars>>
\* the variables beyond those of from_probabilities_to_objects and its jobs
beyond_run_vars == <<qsub_vars, paths_vars, suffix_vars, kernel_vars,
        tools_vars>>
\* the variables a stage function run on its own leaves alone
not_paths_vars == <<pipeline_vars, qsub_vars, job_vars, suffix_vars, kernel_vars,
        tools_vars>>
\* the variables kernel leaves alone
not_kernel_vars == <<pipeline_vars, qsub_vars, job_vars, paths_vars, suffix_vars,
        tools_vars>>
\* the variables two concurrent calls of apply_merge_list leave alone
\* the variables process_block and process_block_nonzero leave alone
not_block_vars == <<pipeline_vars, qsub_vars, job_vars, paths_vars, suffix_vars,
        kernel_vars, overlap_vars, box_vars, voxels_vars, combine_vars, batch_vars, skel_vars, two_vars, guard_vars, semseg_vars, predict_vars>>
\* the variables the overlap computation leaves alone
not_overlap_vars == <<pipeline_vars, qsub_vars, job_vars, paths_vars, suffix_vars,
        kernel_vars, block_vars, box_vars, voxels_vars, combine_vars, batch_vars, skel_vars, two_vars, guard_vars, semseg_vars, predict_vars>>
\* the variables calculate_chunk_numbers_for_box leaves alone
not_box_vars == <<pipeline_vars, qsub_vars, job_vars, paths_vars, suffix_vars,
        kernel_vars, block_vars, overlap_vars, voxels_vars, combine_vars, batch_vars, skel_vars, two_vars, guard_vars, semseg_vars, predict_vars>>
\* the variables the loops of extract_voxels leave alone
not_voxels_vars == <<pipeline_vars, qsub_vars, job_vars, paths_vars, suffix_vars,
        kernel_vars, block_vars, overlap_vars, box_vars, combine_vars, batch_vars, skel_vars, two_vars, guard_vars, semseg_vars, predict_vars>>
\* the variables combine_voxels leaves alone
not_combine_vars == <<pipeline_vars, qsub_vars, job_vars, paths_vars, suffix_vars,
        kernel_vars, block_vars, overlap_vars, box_vars, voxels_vars, batch_vars, skel_vars, two_vars, guard_vars, semseg_vars, predict_vars>>
\* the variables the batch scripts leave alone
not_batch_vars == <<pipeline_vars, qsub_vars, job_vars, paths_vars, suffix_vars,
        kernel_vars, block_vars, overlap_vars, box_vars, voxels_vars, combine_vars, skel_vars, two_vars, guard_vars, semseg_vars, predict_vars>>
\* the variables sparsify_skelcv leaves alone
not_skel_vars == <<pipeline_vars, qsub_vars, job_vars, paths_vars, suffix_vars,
        kernel_vars, block_vars, overlap_vars, box_vars, voxels_vars, combine_vars, batch_vars, two_vars, guard_vars, semseg_vars, predict_vars>>
\* the variables the two invocations leave alone
not_two_vars == <<pipeline_vars, qsub_vars, job_vars, paths_vars, suffix_vars,
        kernel_vars, block_vars, overlap_vars, box_vars, voxels_vars, combine_vars, batch_vars, skel_vars, guard_vars, semseg_vars, predict_vars>>
\* the variables a call of apply_merge_list or extract_voxels on its own leaves alone
not_guard_vars == <<pipeline_vars, qsub_vars, job_vars, paths_vars, suffix_vars,
        kernel_vars, block_vars, overlap_vars, box_vars, voxels_vars, combine_vars, batch_vars, skel_vars, two_vars, semseg_vars, predict_vars>>
\* the variables the batch script QSUB_predict_axoness_semseg leaves alone
not_semseg_vars == <<pipeline_vars, qsub_vars, job_vars, paths_vars, suffix_vars,
        kernel_vars, block_vars, overlap_vars, box_vars, voxels_vars, combine_vars, batch_vars, skel_vars, two_vars, guard_vars, predict_vars>>
\* the variables predict_dataset and pred_dataset leave alone
not_predict_vars == <<pipeline_vars, qsub_vars, job_vars, paths_vars, suffix_vars,
        kernel_vars, block_vars, overlap_vars, box_vars, voxels_vars, combine_vars, batch_vars, skel_vars, two_vars, guard_vars, semseg_vars>>
not_suffix_vars == <<pipeline_vars, qsub_vars, job_vars, paths_vars, kernel_vars,
        tools_vars>>
vars == <<pipeline_vars, other_vars>>

(* ------------------------------ helpers ------------------------------- *)
Range(s) == {s[i] : i \in DOMAIN s}
Hdf5NameSet == Range(Hdf5Names)
ChunkIds == 0..(MaxChunks - 1)

IsInjective(s) == \A i, j \in DOMAIN s : s[i] = s[j] => i = j

\* all orders in which the elements of the finite set S can be listed
Permutations_(S) == {s \in [1..Cardinality(S) -> S] : IsInjective(s)}

RECURSIVE Flatten(_)
Flatten(ss) == IF ss = <<>> THEN <<>> ELSE Head(ss) \o Flatten(Tail(ss))

\* numpy int32 addition: the sum is reduced modulo 2^32 into -2^31..2^31-1
Add32(a, b) ==
    IF b > 0 /\ a > Int32Max - b
    THEN (a - Int32Max - 1) + (b - Int32Max - 1)
    ELSE IF b < 0 /\ a < (-Int32Max - 1) - b
         THEN (a + Int32Max + 1) + (b + Int32Max + 1)
         ELSE a + b

(* ----------------- from_probabilities_to_objects: setup ---------------- *)
\* chunk_list given by the caller: distinct chunk ids in any order
ChunkLists ==
    {s \in UNION {[1..n -> ChunkIds] : n \in 1..MaxChunks} : IsInjective(s)}

\* chunk_translator: chunk id -> position in chunk_list
ChunkTranslator(cl) ==
    [c \in Range(cl) |-> CHOOSE i \in DOMAIN cl : cl[i] = c]

(* --------------- gauss_threshold_connected_components ------------------ *)
\* result of one worker: one entry [chunk number, channel, count] per channel
GaussThresholdConnectedComponentsThread(c, counts) ==
    [i \in DOMAIN Hdf5Names |-> <<c, Hdf5Names[i], counts[c][Hdf5Names[i]]>>]

\* start_multiprocess returns the results in the order of multi_params
LocalResultOrder(cl) == {cl}
\* the jobs that wrote their result file into path_to_out
OutFiles(cl, failed) == Range(cl) \ failed
\* glob.glob lists the result files of QSUB_script in arbitrary order
GlobResultOrders(cl, failed) == Permutations_(OutFiles(cl, failed))

ResultsAsList(order, counts) ==
    Flatten([i \in DOMAIN order |->
                GaussThresholdConnectedComponentsThread(order[i], counts)])

(* ------------------- base allocation (max labels) ---------------------- *)
\* mutant of StoreCounts: the count is stored at the position at which the
\* result arrived instead of the position of its chunk in chunk_list
RECURSIVE StoreCountsByArrival(_, _, _)
StoreCountsByArrival(infos, translator, nb) ==
    IF infos = <<>> THEN nb
    ELSE LET cc_info == Head(infos)
             n == Len(nb[cc_info[2]])
             arrived == n - ((Len(infos) - 1) \div Len(Hdf5Names))
         IN StoreCountsByArrival(Tail(infos), translator,
                [nb EXCEPT ![cc_info[2]][arrived] = cc_info[3]])

\* nb_cc_dict[cc_info[1]][chunk_translator[cc_info[0]]] = cc_info[2]
RECURSIVE StoreCounts(_, _, _)
StoreCounts(infos, translator, nb) ==
    IF infos = <<>> THEN nb
    ELSE LET cc_info == Head(infos)
         IN StoreCounts(Tail(infos), translator,
                [nb EXCEPT ![cc_info[2]][translator[cc_info[1]]] = cc_info[3]])

\* mutant of MaxNb: inclusive prefix sum (the chunk's own count is added)
RECURSIVE MaxNbInclusive(_, _)
MaxNbInclusive(nb, k) ==
    IF k = 1 THEN nb[1] ELSE Add32(MaxNbInclusive(nb, k - 1), nb[k])

\* mutant of MaxNb: the base of the preceding chunk is not carried along
MaxNbNoCarry(nb, k) ==
    IF k = 1 THEN 0 ELSE nb[k - 1]

\* max_nb_dict[h][0] = 0; max_nb_dict[h][k] = max_nb_dict[h][k-1] + nb_cc_dict[h][k-1]
RECURSIVE MaxNb(_, _)
MaxNb(nb, k) ==
    IF k = 1 THEN 0 ELSE Add32(MaxNb(nb, k - 1), nb[k - 1])

MaxNbDict(nb) == [h \in Hdf5NameSet |-> [k \in DOMAIN nb[h] |-> MaxNb(nb[h], k)]]

\* mutant of MaxLabels: the count of the last chunk is left out
MaxLabelsNoLast(nb, mx) ==
    [h \in Hdf5NameSet |-> mx[h][Len(mx[h])]]

\* max_labels[h] = int(max_nb_dict[h][-1] + nb_cc_dict[h][-1])
MaxLabels(nb, mx) ==
    [h \in Hdf5NameSet |-> Add32(mx[h][Len(mx[h])], nb[h][Len(nb[h])])]

Zeros(n) == [k \in 1..n |-> 0]

(* -------------------------- make_unique_labels ------------------------- *)
\* this_max_nb_dict[h] = max_nb_dict[h][chunk_translator[nb_chunk]]
ThisMaxNbDict(c, cl, mx) ==
    [h \in Hdf5NameSet |-> mx[h][ChunkTranslator(cl)[c]]]

\* the worker adds the base of its chunk to every foreground label of the
\* chunk's array: matrix[matrix > 0] += this_max_nb_dict[h]
MakeUniqueLabelsThread(labels, this_max_nb_dict) ==
    [h \in Hdf5NameSet |->
        [i \in DOMAIN labels[h] |->
            IF labels[h][i] > 0 THEN labels[h][i] + this_max_nb_dict[h]
            ELSE labels[h][i]]]

(* ----------------------------- make_stitch_list ------------------------ *)
\* the pairs a stitch list can hold: two foreground global ids, in either
\* order, that belong to different chunks (ids 1..split to the first chunk)
StitchEdges(split, max_label) ==
    {e \in (1..max_label) \X (1..max_label) :
        (e[1] <= split) # (e[2] <= split)}

StitchLists(split, max_label) ==
    UNION {[1..n -> StitchEdges(split, max_label)] : n \in 0..MaxEdges}

(* ----------------------------- make_merge_list ------------------------- *)
\* nodes of nx.from_edgelist(this_stitch_list)
Nodes(this_stitch_list) ==
    UNION {{this_stitch_list[i][1], this_stitch_list[i][2]} :
              i \in DOMAIN this_stitch_list}

Neighbours(this_stitch_list, S) ==
    {y \in Nodes(this_stitch_list) :
        \E i \in DOMAIN this_stitch_list :
            \/ this_stitch_list[i][1] \in S /\ this_stitch_list[i][2] = y
            \/ this_stitch_list[i][2] \in S /\ this_stitch_list[i][1] = y}

RECURSIVE Reach(_, _)
Reach(this_stitch_list, S) ==
    LET T == S \cup Neighbours(this_stitch_list, S)
    IN IF T = S THEN S ELSE Reach(this_stitch_list, T)

\* nx.connected_components(graph): the node sets of the components
ConnectedComponents(this_stitch_list) ==
    {Reach(this_stitch_list, {x}) : x \in Nodes(this_stitch_list)}

\* this_cc[0] of list(this_cc): the iteration order of a Python set is
\* arbitrary, so every member of the component can come first
FirstChoices(this_stitch_list) ==
    LET cc == ConnectedComponents(this_stitch_list)
        nodes == Nodes(this_stitch_list)
    IN {first \in [cc -> nodes] : \A this_cc \in cc : first[this_cc] \in this_cc}

\* the component (a key of first) that holds id
ThisCc(first, id) == CHOOSE this_cc \in DOMAIN first : id \in this_cc

\* merge_dict[h][id] = this_cc[0] for every id of every component
MergeDict(this_stitch_list, first) ==
    [id \in UNION (DOMAIN first) |-> first[ThisCc(first, id)]]

\* mutant of MergeListDict: every id of every component is mapped to the
\* first element of one and the same component
MergeListDictOneComponent(this_stitch_list, max_label, first) ==
    [id \in 0..max_label |->
        IF id \in UNION (DOMAIN first)
        THEN first[CHOOSE this_cc \in DOMAIN first : TRUE]
        ELSE id]

\* mutant of MergeListDict: an id is mapped to a stitch partner instead of
\* the first element of its component
MergeListDictPartner(this_stitch_list, max_label, first) ==
    [id \in 0..max_label |->
        IF id \in UNION (DOMAIN first)
        THEN CHOOSE y \in Neighbours(this_stitch_list, {id}) :
                \A z \in Neighbours(this_stitch_list, {id}) : y >= z
        ELSE id]

\* mutant of MergeListDict: the table starts as np.zeros(max_label + 1)
MergeListDictZeros(this_stitch_list, max_label, first) ==
    [id \in 0..max_label |->
        IF id \in UNION (DOMAIN first)
        THEN first[ThisCc(first, id)]
        ELSE 0]

\* mutant of MergeListDict: the representative is written shifted by one
MergeListDictShifted(this_stitch_list, max_label, first) ==
    [id \in 0..max_label |->
        IF id \in UNION (DOMAIN first)
        THEN first[ThisCc(first, id)] - 1
        ELSE id]

\* merge_list_dict[h] = np.arange(max_label + 1), then
\* merge_list_dict[h][id] = this_cc[0] for every id of every component
MergeListDict(this_stitch_list, max_label, first) ==
    [id \in 0..max_label |->
        IF id \in UNION (DOMAIN first)
        THEN first[ThisCc(first, id)]
        ELSE id]

\* the pairs <<merge_dict[h], merge_list_dict[h]>> make_merge_list can return
MakeMergeList(this_stitch_list, max_label) ==
    {<<MergeDict(this_stitch_list, first),
       MergeListDict(this_stitch_list, max_label, first)>> :
        first \in FirstChoices(this_stitch_list)}

(* ----------------------------- apply_merge_list ------------------------ *)
\* the worker replaces every label of the chunk's array by its table entry
ApplyMergeListThread(labels, table) ==
    [h \in Hdf5NameSet |->
        [i \in DOMAIN labels[h] |-> table[h][labels[h][i]]]]

(* --------------------------- the pipeline ------------------------------ *)
NoLabels == [c \in ChunkIds |-> [h \in Hdf5NameSet |-> <<>>]]
NoTable == [h \in Hdf5NameSet |-> <<>>]
NoCounts == [h \in Hdf5NameSet |-> 0]

\* the label array a chunk with n components holds after labelling, one voxel
\* per value: background 0 first, then the local ids 1..n
LabelArray(n) == [i \in 1..(n + 1) |-> i - 1]

\* no stage function waits for jobs
JobsIdle ==
    /\ call = ""
    /\ started = {}
    /\ finished = {}
    /\ stitch_results = <<>>

\* no stage function is examined on its own
PathsIdle ==
    /\ fn = ""
    /\ fn_pc = "not called"
    /\ worker_results = <<>>
    /\ stale_out = {}
    /\ worker_runs = <<>>
    /\ aggregated = <<>>

\* no second run works on the chunk dataset
SuffixIdle ==
    /\ suffix = <<>>
    /\ run_table = <<>>
    /\ files = <<>>
    /\ apply_pc = <<>>
    /\ loaded = <<>>

\* kernel is not called
KernelIdle ==
    /\ chunk = <<>>
    /\ center_id = <<>>
    /\ kernel_pc = "not called"
    /\ out = <<>>

\* process_block and process_block_nonzero are not called
BlockIdle ==
    /\ block_fn = ""
    /\ python = 0
    /\ edges = <<>>
    /\ arr = <<>>
    /\ arr_shape = <<>>
    /\ stencil = <<>>
    /\ block_pc = "not called"
    /\ block_out = <<>>

\* gauss_threshold_connected_components is not asked for its overlap
OverlapIdle ==
    /\ hdf5names = <<>>
    /\ sigmas = <<>>
    /\ overlap = <<>>
    /\ stitch_overlap = <<>>
    /\ overlap_pc = "not called"

\* calculate_chunk_numbers_for_box is not called
BoxIdle ==
    /\ box = <<>>
    /\ box_offset = <<>>
    /\ box_size = <<>>
    /\ chunk_size = <<>>
    /\ coord_dict = <<>>
    /\ box_pc = "not called"
    /\ box_chunk_list = <<>>
    /\ box_translator = <<>>

\* extract_voxels is not called
VoxelsIdle ==
    /\ chunk_results = <<>>
    /\ voxel_results = <<>>
    /\ channel = 0
    /\ result_nb = 0
    /\ remap_dict = <<>>
    /\ remapping_dict_pkl = <<>>
    /\ voxels_pc = "not called"

\* combine_voxels is not called
CombineIdle ==
    /\ so_ids = <<>>
    /\ stride = 0
    /\ so_id_dict = <<>>
    /\ so_nb = 0
    /\ so_id_blocks = <<>>
    /\ combine_pc = "not called"

\* no batch is submitted
BatchIdle ==
    /\ batches = <<>>
    /\ submitted = 0
    /\ storage = <<>>
    /\ sh = <<>>
    /\ script_pc = <<>>
    /\ args = <<>>
    /\ written = <<>>

\* sparsify_skelcv is not called
SkelIdle ==
    /\ skel = <<>>
    /\ position = <<>>
    /\ skel_nx = <<>>
    /\ visiting_nodes = {}
    /\ change = 0
    /\ skel_pc = "not called"

\* no two invocations of QSUB_script run side by side
TwoIdle ==
    /\ job_names = <<>>
    /\ inv_pc = <<>>
    /\ inv_jobs = <<>>

\* neither apply_merge_list nor extract_voxels is called on its own
GuardIdle ==
    /\ guard_fn = ""
    /\ guard_chunk_list = <<>>
    /\ qsub_given = FALSE
    /\ qsub_available = FALSE
    /\ disk_at_call = <<>>
    /\ disk = <<>>
    /\ block_steps = <<>>
    /\ path_slices = <<>>
    /\ guard_pc = "not called"

\* the batch script QSUB_predict_axoness_semseg does not run
SemsegIdle ==
    /\ ch = <<>>
    /\ failing_ssvs = {}
    /\ semseg_res = <<>>
    /\ missing = {}
    /\ stdout = <<>>
    /\ path_out_file = "absent"
    /\ semseg_pc = "not started"

\* neither predict_dataset nor pred_dataset is called
PredictIdle ==
    /\ call_stack = <<>>
    /\ gpu_ids = <<>>
    /\ overwrite = FALSE
    /\ pred_chunks = <<>>
    /\ chunk_nb = 0
    /\ threads = <<>>
    /\ predict_pc = "not called"

\* none of the functions examined on their own is called
ToolsIdle ==
    /\ BlockIdle
    /\ OverlapIdle
    /\ BoxIdle
    /\ VoxelsIdle
    /\ CombineIdle
    /\ BatchIdle
    /\ SkelIdle
    /\ TwoIdle
    /\ GuardIdle
    /\ SemsegIdle
    /\ PredictIdle

\* the other programs have not been started
OtherInit ==
    /\ params = <<>>
    /\ ident = ""
    /\ qs_pc = "not called"
    /\ ii = 0
    /\ job = <<>>
    /\ other_listed = FALSE
    /\ JobsIdle
    /\ PathsIdle
    /\ SuffixIdle
    /\ KernelIdle

Init ==
    /\ chunk_list \in ChunkLists
    /\ qsub \in BOOLEAN
    /\ cc_count \in [Range(chunk_list) -> [Hdf5NameSet -> 0..MaxCount]]
    /\ cc_labels = NoLabels
    /\ cc_info_list = <<>>
    /\ nb_cc_dict = NoTable
    /\ max_nb_dict = NoTable
    /\ max_labels = NoCounts
    /\ pc = "start"
    /\ stitch_list = NoTable
    /\ merge_dict = NoTable
    /\ merge_list_dict = NoTable
    /\ merge_list_dict_pkl = NoTable
    /\ failed_jobs = {}
    /\ OtherInit
    /\ ToolsIdle

\* lines 810-828: every chunk is labelled, the per-chunk results are gathered
gauss_threshold_connected_components ==
    /\ pc = "start"
    /\ \E order \in (IF qsub THEN GlobResultOrders(chunk_list, failed_jobs)
                             ELSE LocalResultOrder(chunk_list)) :
          cc_info_list' = ResultsAsList(order, cc_count)
    /\ cc_labels' = [c \in ChunkIds |->
                       IF c \in Range(chunk_list) \ failed_jobs
                       THEN [h \in Hdf5NameSet |-> LabelArray(cc_count[c][h])]
                       ELSE cc_labels[c]]
    /\ pc' = "cc"
    /\ UNCHANGED <<chunk_list, qsub, cc_count, nb_cc_dict, max_nb_dict,
                   max_labels, stitch_list, merge_dict, merge_list_dict,
                   merge_list_dict_pkl, failed_jobs, other_vars>>

\* lines 832-852: counts per position, bases, max_labels
extracting_max_labels ==
    /\ pc = "cc"
    /\ LET nb == StoreCounts(cc_info_list, ChunkTranslator(chunk_list),
                             [h \in Hdf5NameSet |-> Zeros(Len(chunk_list))])
           mx == MaxNbDict(nb)
       IN /\ nb_cc_dict' = nb
          /\ max_nb_dict' = mx
          /\ max_labels' = MaxLabels(nb, mx)
    /\ pc' = "max_labels"
    /\ UNCHANGED <<chunk_list, qsub, cc_count, cc_labels, cc_info_list,
                   stitch_list, merge_dict, merge_list_dict,
                   merge_list_dict_pkl, failed_jobs, other_vars>>

\* lines 856-862 and 337-356: one job per chunk of chunk_list; the call
\* returns when every job has finished
make_unique_labels ==
    /\ pc = "max_labels"
    /\ cc_labels' = [c \in ChunkIds |->
                       IF c \in Range(chunk_list)
                       THEN MakeUniqueLabelsThread(cc_labels[c],
                                ThisMaxNbDict(c, chunk_list, max_nb_dict))
                       ELSE cc_labels[c]]
    /\ pc' = "unique_labels"
    /\ UNCHANGED <<chunk_list, qsub, cc_count, cc_info_list, nb_cc_dict,
                   max_nb_dict, max_labels, stitch_list, merge_dict,
                   merge_list_dict, merge_list_dict_pkl, failed_jobs, other_vars>>

Next ==
    \/ gauss_threshold_connected_components
    \/ extracting_max_labels
    \/ make_unique_labels

Spec == Init /\ [][Next]_vars

(* ------ the pipeline through QSUB_script with jobs that leave no result ---- *)
\* chunk_list = range(len(cset.chunk_dict)) for a dataset of n chunks
DefaultChunkList(n) == [i \in 1..n |-> i - 1]

\* a run with qsub_pe/qsub_queue given in which the connected-component jobs
\* of some chunks end without writing a result file into path_to_out
InitMissing ==
    /\ chunk_list \in {DefaultChunkList(n) : n \in 1..MaxChunks}
    /\ qsub = TRUE
    /\ cc_count \in [Range(chunk_list) -> [Hdf5NameSet -> 0..MaxCount]]
    /\ cc_labels = NoLabels
    /\ cc_info_list = <<>>
    /\ nb_cc_dict = NoTable
    /\ max_nb_dict = NoTable
    /\ max_labels = NoCounts
    /\ pc = "start"
    /\ stitch_list = NoTable
    /\ merge_dict = NoTable
    /\ merge_list_dict = NoTable
    /\ merge_list_dict_pkl = NoTable
    /\ failed_jobs \in SUBSET Range(chunk_list)
    /\ OtherInit
    /\ ToolsIdle

SpecMissing == InitMissing /\ [][Next]_vars


(* --------------- base allocation with large component counts ----------- *)
\* counts of chunks with very many components: up to 2^30
WideCounts == {0, 1, 1073741823, 1073741824}

\* the connected components have been counted (line 826); the label arrays
\* of such chunks are not held in the model
InitWide ==
    /\ chunk_list \in ChunkLists
    /\ qsub = FALSE
    /\ cc_count \in [Range(chunk_list) -> [Hdf5NameSet -> WideCounts]]
    /\ cc_labels = NoLabels
    /\ cc_info_list = ResultsAsList(chunk_list, cc_count)
    /\ nb_cc_dict = NoTable
    /\ max_nb_dict = NoTable
    /\ max_labels = NoCounts
    /\ pc = "cc"
    /\ stitch_list = NoTable
    /\ merge_dict = NoTable
    /\ merge_list_dict = NoTable
    /\ merge_list_dict_pkl = NoTable
    /\ failed_jobs = {}
    /\ OtherInit
    /\ ToolsIdle

NextWide == extracting_max_labels

SpecWide == InitWide /\ [][NextWide]_vars

(* --------- the pipeline from make_stitch_list on (merge stages) -------- *)
\* the state in which make_stitch_list has returned: two chunks with unique
\* labels 1..split and split+1..max_label, and a stitch list between them
InitMerge ==
    /\ chunk_list = <<0, 1>>
    /\ qsub = FALSE
    /\ \E max_label \in 0..MaxLabel : \E split \in 0..max_label :
          /\ cc_count = [c \in {0, 1} |-> [h \in Hdf5NameSet |->
                            IF c = 0 THEN split ELSE max_label - split]]
          /\ stitch_list \in [Hdf5NameSet -> StitchLists(split, max_label)]
    /\ cc_info_list = ResultsAsList(chunk_list, cc_count)
    /\ nb_cc_dict = StoreCounts(cc_info_list, ChunkTranslator(chunk_list),
                                [h \in Hdf5NameSet |-> Zeros(Len(chunk_list))])
    /\ max_nb_dict = MaxNbDict(nb_cc_dict)
    /\ max_labels = MaxLabels(nb_cc_dict, max_nb_dict)
    /\ cc_labels = [c \in ChunkIds |->
                      IF c \in Range(chunk_list)
                      THEN MakeUniqueLabelsThread(
                               [h \in Hdf5NameSet |-> LabelArray(cc_count[c][h])],
                               ThisMaxNbDict(c, chunk_list, max_nb_dict))
                      ELSE NoLabels[c]]
    /\ pc = "stitch_list"
    /\ merge_dict = NoTable
    /\ merge_list_dict = NoTable
    /\ merge_list_dict_pkl = NoTable
    /\ failed_jobs = {}
    /\ OtherInit
    /\ ToolsIdle

\* lines 877-882 and 462-477
make_merge_list ==
    /\ pc = "stitch_list"
    /\ LET res == [h \in Hdf5NameSet |->
                      MakeMergeList(stitch_list[h], max_labels[h])]
       IN \E r \in [Hdf5NameSet -> UNION {res[h] : h \in Hdf5NameSet}] :
            /\ \A h \in Hdf5NameSet : r[h] \in res[h]
            /\ merge_dict' = [h \in Hdf5NameSet |-> r[h][1]]
            /\ merge_list_dict' = [h \in Hdf5NameSet |-> r[h][2]]
    /\ pc' = "merge_list"
    /\ UNCHANGED <<chunk_list, qsub, cc_count, cc_labels, cc_info_list,
                   nb_cc_dict, max_nb_dict, max_labels, stitch_list,
                   merge_list_dict_pkl, failed_jobs, other_vars>>

\* lines 888-894 and 509-533: the table is written to merge_list_dict.pkl,
\* one job per chunk of chunk_list rewrites the chunk's labels with it; the
\* call can be repeated with the same table
apply_merge_list ==
    /\ pc \in {"merge_list", "apply_merge_list"}
    /\ merge_list_dict_pkl' = merge_list_dict
    /\ cc_labels' = [c \in ChunkIds |->
                       IF c \in Range(chunk_list)
                       THEN ApplyMergeListThread(cc_labels[c], merge_list_dict_pkl')
                       ELSE cc_labels[c]]
    /\ pc' = "apply_merge_list"
    /\ UNCHANGED <<chunk_list, qsub, cc_count, cc_info_list, nb_cc_dict,
                   max_nb_dict, max_labels, stitch_list, merge_dict,
                   merge_list_dict, failed_jobs, other_vars>>

NextMerge ==
    \/ make_merge_list
    \/ apply_merge_list

SpecMerge == InitMerge /\ [][NextMerge]_vars

(* ------------- from_probabilities_to_objects, job by job --------------- *)
\* mutant of Stages: make_stitch_list is called before make_unique_labels
StagesStitchBeforeUnique ==
    <<"cc", "max_labels", "stitch_list", "unique_labels", "merge_list",
      "apply_merge_list", "extract_voxels">>

\* the stages in the order in which from_probabilities_to_objects runs them;
\* pc holds the stage that was completed last
Stages ==
    <<"cc", "max_labels", "unique_labels", "stitch_list", "merge_list",
      "apply_merge_list", "extract_voxels">>

\* the stages that run one job per chunk of chunk_list
JobStages ==
    {"cc", "unique_labels", "stitch_list", "apply_merge_list", "extract_voxels"}

\* the stage that follows the completion of stage done
NextStage(done) ==
    IF done = "start" THEN Stages[1]
    ELSE Stages[(CHOOSE k \in DOMAIN Stages : Stages[k] = done) + 1]

\* def extract_voxels(cset, filename, hdf5names=None, ...): its parameters
ExtractVoxelsParameters ==
    {"cset", "filename", "hdf5names", "overlaydataset_path", "chunk_list",
     "suffix", "use_work_dir", "qsub_pe", "qsub_queue", "n_max_processes"}

\* the keyword arguments of the call of extract_voxels at lines 899-901
ExtractVoxelsKeywords ==
    {"debug", "chunk_list", "suffix", "use_work_dir", "qsub_pe", "qsub_queue"}

\* Python binds the arguments before the body runs: a keyword that is no
\* parameter raises TypeError
CallAccepted(keywords, parameters) == keywords \subseteq parameters

\* the component counts of the runs explored job by job
RunCounts == {0, 1}

\* the chunk the stitch job of chunk c compares its overlap with: the one
\* that follows it in chunk_list
FollowingChunks(c) ==
    {chunk_list[i + 1] : i \in {j \in 1..(Len(chunk_list) - 1) : chunk_list[j] = c}}

\* global ids of the foreground voxels stored for chunk c
IdsOfChunk(c, h) == {cc_labels[c][h][i] : i \in 2..Len(cc_labels[c][h])}

\* the results a make_stitch_list job of chunk c can return: no edge, or one
\* edge between an object of c and an object of the following chunk
StitchResultsOf(c) ==
    [Hdf5NameSet ->
        {<<>>} \cup {<<e>> : e \in UNION {IdsOfChunk(c, h) \X IdsOfChunk(d, h) :
                                  h \in Hdf5NameSet, d \in FollowingChunks(c)}}]

\* stitch_list[h]: the elements of the results, result after result
StitchListOf(order, results) ==
    [h \in Hdf5NameSet |-> Flatten([i \in DOMAIN order |-> results[order[i]][h]])]

\* the job runner returns when every job of the stage has returned
AllJobsReturned(stage) ==
    \A c \in Range(chunk_list) : <<stage, c>> \in finished

InitRun ==
    /\ chunk_list \in {DefaultChunkList(n) : n \in 1..MaxChunks}
    /\ qsub \in BOOLEAN
    /\ cc_count \in [Range(chunk_list) -> [Hdf5NameSet -> RunCounts]]
    /\ cc_labels = NoLabels
    /\ cc_info_list = <<>>
    /\ nb_cc_dict = NoTable
    /\ max_nb_dict = NoTable
    /\ max_labels = NoCounts
    /\ pc = "start"
    /\ stitch_list = NoTable
    /\ merge_dict = NoTable
    /\ merge_list_dict = NoTable
    /\ merge_list_dict_pkl = NoTable
    /\ failed_jobs = {}
    /\ OtherInit
    /\ ToolsIdle

\* a stage function is called: it builds multi_params and hands them to the
\* job runner (apply_merge_list first writes merge_list_dict.pkl); the call
\* of extract_voxels at lines 899-901 has to be accepted first
call_stage ==
    /\ call = ""
    /\ pc \in {"start"} \cup Range(Stages)
    /\ pc # Stages[Len(Stages)]
    /\ NextStage(pc) \in JobStages
    /\ LET stage == NextStage(pc)
       IN IF stage = "extract_voxels"
             /\ ~CallAccepted(ExtractVoxelsKeywords, ExtractVoxelsParameters)
          THEN /\ pc' = "TypeError"
               /\ UNCHANGED <<call, merge_list_dict_pkl>>
          ELSE /\ call' = stage
               /\ merge_list_dict_pkl' =
                     IF stage = "apply_merge_list" THEN merge_list_dict
                     ELSE merge_list_dict_pkl
               /\ pc' = pc
    /\ UNCHANGED <<chunk_list, qsub, cc_count, cc_labels, cc_info_list,
                   nb_cc_dict, max_nb_dict, max_labels, stitch_list, merge_dict,
                   merge_list_dict, failed_jobs, started, finished,
                   stitch_results, beyond_run_vars>>

\* the job runner starts the job of one chunk
job_starts ==
    /\ call # ""
    /\ \E c \in Range(chunk_list) :
          /\ <<call, c>> \notin started
          /\ started' = started \cup {<<call, c>>}
    /\ UNCHANGED <<pipeline_vars, call, finished, stitch_results, beyond_run_vars>>

\* the job of one chunk returns: the worker has rewritten the label file of
\* its chunk or produced its result
job_returns ==
    /\ call # ""
    /\ \E c \in Range(chunk_list) :
          /\ <<call, c>> \in started \ finished
          /\ finished' = finished \cup {<<call, c>>}
          /\ cc_labels' =
                [cc_labels EXCEPT ![c] =
                    CASE call = "cc" ->
                           [h \in Hdf5NameSet |-> LabelArray(cc_count[c][h])]
                      [] call = "unique_labels" ->
                           MakeUniqueLabelsThread(cc_labels[c],
                               ThisMaxNbDict(c, chunk_list, max_nb_dict))
                      [] call = "apply_merge_list" ->
                           ApplyMergeListThread(cc_labels[c], merge_list_dict_pkl)
                      [] OTHER -> cc_labels[c]]
          /\ IF call = "stitch_list"
             THEN \E result \in StitchResultsOf(c) :
                     stitch_results' = [d \in DOMAIN stitch_results \cup {c} |->
                                           IF d = c THEN result
                                           ELSE stitch_results[d]]
             ELSE UNCHANGED stitch_results
    /\ UNCHANGED <<chunk_list, qsub, cc_count, cc_info_list, nb_cc_dict,
                   max_nb_dict, max_labels, pc, stitch_list, merge_dict,
                   merge_list_dict, merge_list_dict_pkl, failed_jobs, call,
                   started, beyond_run_vars>>

\* the job runner returns and the stage function gathers the results: in
\* the order of multi_params, or in the order of glob.glob(path_to_out)
stage_returns ==
    /\ call # ""
    /\ AllJobsReturned(call)
    /\ \E order \in (IF qsub THEN GlobResultOrders(chunk_list, failed_jobs)
                             ELSE LocalResultOrder(chunk_list)) :
          /\ cc_info_list' = IF call = "cc" THEN ResultsAsList(order, cc_count)
                             ELSE cc_info_list
          /\ stitch_list' = IF call = "stitch_list"
                            THEN StitchListOf(order, stitch_results)
                            ELSE stitch_list
    /\ pc' = IF call = Stages[Len(Stages)] THEN "returned" ELSE call
    /\ call' = ""
    /\ UNCHANGED <<chunk_list, qsub, cc_count, cc_labels, nb_cc_dict,
                   max_nb_dict, max_labels, merge_dict, merge_list_dict,
                   merge_list_dict_pkl, failed_jobs, started, finished,
                   stitch_results, beyond_run_vars>>

NextRun ==
    \/ call_stage
    \/ job_starts
    \/ job_returns
    \/ stage_returns
    \/ extracting_max_labels
    \/ make_merge_list

SpecRun == InitRun /\ [][NextRun]_vars

\* the main process and the workers of the job runner keep running
FairSpecRun == SpecRun /\ WF_vars(NextRun)

(* ============================ QSUB_script ============================== *)
\* the parameter batches of a call: batch i holds the parameters of chunk i
ParamLists == {[i \in 1..n |-> <<i - 1>>] : n \in 1..MaxParams}

\* the ident arguments: the default and a non-empty one
Idents == {"", "_run2"}

\* the jobs qstat lists: submitted and neither finished nor failed
Listed == {i \in DOMAIN job : job[i] = "queued"}

\* nb_lines if qstat kept listing the jobs that have ended
NbLinesWithEndedJobs ==
    Cardinality({i \in DOMAIN job : job[i] # "not submitted"}) +
        (IF other_listed THEN 1 ELSE 0)

\* nb_lines: the number of lines of qstat that hold job_name[:10]
NbLines == Cardinality(Listed) + (IF other_listed THEN 1 ELSE 0)

\* the batches for which out/job_i.pkl exists
OutFilesOfJobs == {i \in DOMAIN job : job[i] = "finished"}

\* no stage of from_probabilities_to_objects has run
StagesIdle ==
    /\ qsub = TRUE
    /\ cc_count = <<>>
    /\ cc_labels = NoLabels
    /\ cc_info_list = <<>>
    /\ nb_cc_dict = NoTable
    /\ max_nb_dict = NoTable
    /\ max_labels = NoCounts
    /\ pc = "not called"
    /\ stitch_list = NoTable
    /\ merge_dict = NoTable
    /\ merge_list_dict = NoTable
    /\ merge_list_dict_pkl = NoTable
    /\ failed_jobs = {}

\* the pipeline has not been started while QSUB_script is examined
PipelineIdle ==
    /\ chunk_list = <<>>
    /\ StagesIdle

\* QSUB_script has been called: lines 19-57 have set up the folders
InitQsub ==
    /\ PipelineIdle
    /\ params \in ParamLists
    /\ ident \in Idents
    /\ qs_pc = "submit"
    /\ ii = 0
    /\ job = [i \in DOMAIN params |-> "not submitted"]
    /\ other_listed \in BOOLEAN
    /\ JobsIdle
    /\ PathsIdle
    /\ SuffixIdle
    /\ KernelIdle
    /\ ToolsIdle

\* lines 60-86: one pass of the loop writes job_ii.sh and job_ii.pkl and
\* hands the job to the scheduler with qsub
submit_job ==
    /\ qs_pc = "submit"
    /\ ii < Len(params)
    /\ job' = [job EXCEPT ![ii + 1] = "queued"]
    /\ ii' = ii + 1
    /\ UNCHANGED <<params, ident, qs_pc, other_listed, not_qsub_vars>>

\* lines 88-89 and 107: after the loop the polling is entered only when
\* ident is empty; otherwise path_to_out is returned at once
all_jobs_submitted ==
    /\ qs_pc = "submit"
    /\ ii = Len(params)
    /\ qs_pc' = IF Len(ident) = 0 THEN "polling" ELSE "returned"
    /\ UNCHANGED <<params, ident, ii, job, other_listed, not_qsub_vars>>

\* lines 90-105: qstat is read; without a line that holds job_name[:10] the
\* loop is left and path_to_out is returned, otherwise the loop sleeps
qstat_poll ==
    /\ qs_pc = "polling"
    /\ qs_pc' = IF NbLines = 0 THEN "returned" ELSE "polling"
    /\ UNCHANGED <<params, ident, ii, job, other_listed, not_qsub_vars>>

\* the scheduler: a listed job ends and has written out/job_i.pkl
job_finishes ==
    /\ \E i \in Listed : job' = [job EXCEPT ![i] = "finished"]
    /\ UNCHANGED <<params, ident, qs_pc, ii, other_listed, not_qsub_vars>>

\* the scheduler: a listed job ends (error, kill) without a result file
job_fails ==
    /\ \E i \in Listed : job' = [job EXCEPT ![i] = "failed"]
    /\ UNCHANGED <<params, ident, qs_pc, ii, other_listed, not_qsub_vars>>

\* the scheduler: the foreign entry leaves the queue
other_job_leaves ==
    /\ other_listed
    /\ other_listed' = FALSE
    /\ UNCHANGED <<params, ident, qs_pc, ii, job, not_qsub_vars>>

NextQsub ==
    \/ submit_job
    \/ all_jobs_submitted
    \/ qstat_poll
    \/ job_finishes
    \/ job_fails
    \/ other_job_leaves

SpecQsub == InitQsub /\ [][NextQsub]_vars

\* the process that runs QSUB_script keeps running: the submission loop goes
\* on and the polling loop reads qstat again after every sleep (line 105)
FairSpecQsub ==
    SpecQsub /\ WF_vars(submit_job \/ all_jobs_submitted \/ qstat_poll)

(* ------- a stage function run through either of the job runners -------- *)
\* the stage functions that aggregate results of their workers
StageFunctions ==
    {"gauss_threshold_connected_components", "make_stitch_list", "extract_ids"}

\* what the worker returns for the batch of chunk c when it finds n items:
\* the entries [chunk, channel, count], the elements per channel, or the
\* pair of the chunk and the ids it holds per channel
WorkerResult(f, c, n) ==
    CASE f = "gauss_threshold_connected_components" ->
            [i \in DOMAIN Hdf5Names |-> <<c, Hdf5Names[i], n>>]
      [] f = "make_stitch_list" ->
            [h \in Hdf5NameSet |-> [k \in 1..n |-> <<c, k>>]]
      [] f = "extract_ids" ->
            <<c, [h \in Hdf5NameSet |-> 1..n]>>

\* id_mapping[hdf5_name][this_id]: result[0] of every result that holds
\* this_id, in the order of the results
RECURSIVE ChunksHolding(_, _, _)
ChunksHolding(results, h, this_id) ==
    IF results = <<>> THEN <<>>
    ELSE (IF this_id \in Head(results)[2][h] THEN <<Head(results)[1]>> ELSE <<>>)
            \o ChunksHolding(Tail(results), h, this_id)

IdMapping(results) ==
    [h \in Hdf5NameSet |->
        [this_id \in UNION {results[i][2][h] : i \in DOMAIN results} |->
            ChunksHolding(results, h, this_id)]]

\* the aggregation loop of the stage function over the list of results
Aggregate(f, results) ==
    CASE f = "gauss_threshold_connected_components" -> Flatten(results)
      [] f = "make_stitch_list" ->
            [h \in Hdf5NameSet |->
                Flatten([i \in DOMAIN results |-> results[i][h]])]
      [] f = "extract_ids" -> IdMapping(results)

\* results of start_multiprocess: one per entry of multi_params, in order
LocalResults(cl, outputs) == [i \in DOMAIN cl |-> outputs[cl[i]]]

\* what an earlier run can have left in the out folder of extract_ids: nothing,
\* or one result file per chunk of a dataset in which every chunk held k ids
StaleFolders ==
    {{}} \cup {{WorkerResult("extract_ids", c, k) : c \in ChunkIds} :
                    k \in 0..MaxCount}

InitPaths ==
    /\ PipelineIdle
    /\ params = <<>>
    /\ ident = ""
    /\ qs_pc = "not called"
    /\ ii = 0
    /\ job = <<>>
    /\ other_listed = FALSE
    /\ JobsIdle
    /\ SuffixIdle
    /\ KernelIdle
    /\ fn \in StageFunctions
    /\ fn_pc = "called"
    /\ \E cl \in {DefaultChunkList(n) : n \in 1..MaxChunks} :
          \E found \in [Range(cl) -> 0..MaxCount] :
              worker_results = [c \in Range(cl) |-> WorkerResult(fn, c, found[c])]
    /\ stale_out \in StaleFolders
    /\ worker_runs = [c \in DOMAIN worker_results |-> 0]
    /\ aggregated = <<>>
    /\ ToolsIdle

\* the batches of the call: one per chunk, in the order of the chunk ids
Batches == DefaultChunkList(Cardinality(DOMAIN worker_results))

\* qsub_pe and qsub_queue are None: start_multiprocess runs the worker on
\* every batch and returns the results in the order of multi_params
run_local ==
    /\ fn_pc = "called"
    /\ worker_runs' = [c \in DOMAIN worker_results |-> worker_runs[c] + 1]
    /\ aggregated' = Aggregate(fn, LocalResults(Batches, worker_results))
    /\ fn_pc' = "returned"
    /\ UNCHANGED <<fn, worker_results, stale_out, not_paths_vars>>

\* gauss_threshold_connected_components lines 286-296 and make_stitch_list
\* lines 415-432: QSUB_script runs one job per batch, the result files are
\* read in the order of glob.glob
run_qsub ==
    /\ fn_pc = "called"
    /\ fn \in {"gauss_threshold_connected_components", "make_stitch_list"}
    /\ worker_runs' = [c \in DOMAIN worker_results |-> worker_runs[c] + 1]
    /\ \E order \in GlobResultOrders(Batches, {}) :
          aggregated' = Aggregate(fn, LocalResults(order, worker_results))
    /\ fn_pc' = "returned"
    /\ UNCHANGED <<fn, worker_results, stale_out, not_paths_vars>>

\* extract_ids lines 91-101: the call of QSUB_script is commented out; the
\* files found in the fixed folder are read in the order of glob.glob
run_qsub_extract_ids ==
    /\ fn_pc = "called"
    /\ fn = "extract_ids"
    /\ \E results \in Permutations_(stale_out) :
          aggregated' = Aggregate(fn, results)
    /\ fn_pc' = "returned"
    /\ UNCHANGED <<fn, worker_results, stale_out, worker_runs,
                   not_paths_vars>>

NextPaths ==
    \/ run_local
    \/ run_qsub
    \/ run_qsub_extract_ids

SpecPaths == InitPaths /\ [][NextPaths]_vars

(* -------- two runs of apply_merge_list on one chunk dataset ------------ *)
Runs == {1, 2}

\* the suffix arguments of the two runs
Suffixes == {"", "_v2"}

\* cset.path_head_folder of the chunk dataset both runs work on
PathHeadFolder == "/cset/"

\* merge_list_dict_path = cset.path_head_folder + "merge_list_dict.pkl"
MergeListDictPath(path_head_folder, this_suffix) ==
    path_head_folder \o "merge_list_dict.pkl"

\* the tables make_merge_list can return for max_label 2: no stitch edge, or
\* the edge (1, 2)
RunTables ==
    {r[2] : r \in MakeMergeList(<<>>, 2) \cup MakeMergeList(<<<<1, 2>>>>, 2)}

\* both runs have computed their merge_list_dict and are about to call
\* apply_merge_list with their own suffix
InitSuffix ==
    /\ chunk_list \in {DefaultChunkList(n) : n \in 1..MaxChunks}
    /\ StagesIdle
    /\ params = <<>>
    /\ ident = ""
    /\ qs_pc = "not called"
    /\ ii = 0
    /\ job = <<>>
    /\ other_listed = FALSE
    /\ JobsIdle
    /\ PathsIdle
    /\ KernelIdle
    /\ suffix \in {f \in [Runs -> Suffixes] : f[1] # f[2]}
    /\ run_table \in [Runs -> RunTables]
    /\ files = [path \in {MergeListDictPath(PathHeadFolder, sfx) : sfx \in Suffixes}
                   |-> <<>>]
    /\ apply_pc = [r \in Runs |-> "called"]
    /\ loaded = [r \in Runs |-> [c \in Range(chunk_list) |-> <<>>]]
    /\ ToolsIdle

\* lines 509-518: the table is dumped to merge_list_dict_path and one job
\* per chunk is handed to the job runner with that path
write_merge_list_dict ==
    \E r \in Runs :
        /\ apply_pc[r] = "called"
        /\ files' = [files EXCEPT
                         ![MergeListDictPath(PathHeadFolder, suffix[r])] =
                             run_table[r]]
        /\ apply_pc' = [apply_pc EXCEPT ![r] = "jobs"]
        /\ UNCHANGED <<suffix, run_table, loaded, not_suffix_vars>>

\* the worker of one chunk loads the table from the path of its parameters
apply_merge_list_thread ==
    \E r \in Runs : \E c \in Range(chunk_list) :
        /\ apply_pc[r] = "jobs"
        /\ loaded[r][c] = <<>>
        /\ loaded' = [loaded EXCEPT ![r][c] =
                          files[MergeListDictPath(PathHeadFolder, suffix[r])]]
        /\ UNCHANGED <<suffix, run_table, files, apply_pc, not_suffix_vars>>

\* lines 523-530: the job runner returns when every worker has
apply_merge_list_returns ==
    \E r \in Runs :
        /\ apply_pc[r] = "jobs"
        /\ \A c \in Range(chunk_list) : loaded[r][c] # <<>>
        /\ apply_pc' = [apply_pc EXCEPT ![r] = "returned"]
        /\ UNCHANGED <<suffix, run_table, files, loaded, not_suffix_vars>>

NextSuffix ==
    \/ write_merge_list_dict
    \/ apply_merge_list_thread
    \/ apply_merge_list_returns

SpecSuffix == InitSuffix /\ [][NextSuffix]_vars

(* ------------------------------- kernel -------------------------------- *)
\* the ID 0 (background) and the value 0 kernel returns without partner
ZeroId == <<0, 0>>
ZeroKey == <<0, 0, 0, 0>>

\* the IDs of the voxels: 0, 1, 2, 3, 2^31 and 2^32 - 1
Ids == {<<0, 0>>, <<0, 1>>, <<0, 2>>, <<0, 3>>, <<32768, 0>>, <<65535, 65535>>}

\* a > b for two numbers with the same number of digits
Greater(a, b) ==
    \E k \in DOMAIN a :
        /\ a[k] > b[k]
        /\ \A j \in 1..(k - 1) : a[j] = b[j]

\* the elements of the set S of IDs in ascending order
RECURSIVE Ascending(_)
Ascending(S) ==
    IF S = {} THEN <<>>
    ELSE LET least == CHOOSE m \in S : \A x \in S : ~Greater(m, x)
         IN <<least>> \o Ascending(S \ {least})

\* unique_ids of np.unique(chunk, return_counts=True): the distinct values
\* of the window in ascending order
UniqueIds(window) == Ascending(Range(window))

\* counts of np.unique(chunk, return_counts=True)
Counts(window, unique_ids) ==
    [k \in DOMAIN unique_ids |->
        Cardinality({i \in DOMAIN window : window[i] = unique_ids[k]})]

\* mutant of MaskedCounts: the count of center_id is not masked
MaskedCountsZeroOnly(unique_ids, counts, center) ==
    [k \in DOMAIN counts |-> IF unique_ids[k] = ZeroId THEN -1 ELSE counts[k]]

\* counts[unique_ids == 0] = -1; counts[unique_ids == center_id] = -1
MaskedCounts(unique_ids, counts, center) ==
    [k \in DOMAIN counts |->
        IF unique_ids[k] = ZeroId \/ unique_ids[k] = center THEN -1
        ELSE counts[k]]

\* np.max(counts)
NpMax(counts) ==
    CHOOSE m \in Range(counts) : \A k \in DOMAIN counts : counts[k] <= m

\* mutant of NpArgMax: the last position of the maximum
NpArgMaxLast(counts) ==
    CHOOSE k \in DOMAIN counts :
        /\ counts[k] = NpMax(counts)
        /\ \A j \in DOMAIN counts : counts[j] = NpMax(counts) => j <= k

\* np.argmax(counts): the first position of the maximum
NpArgMax(counts) ==
    CHOOSE k \in DOMAIN counts :
        /\ counts[k] = NpMax(counts)
        /\ \A j \in DOMAIN counts : counts[j] = NpMax(counts) => k <= j

\* mutant of ShiftLeft32: the ID is shifted by 16 bits only
ShiftLeft16(id) == <<0, id[1], id[2], 0>>

\* id << 32 for an ID below 2^32, as a 64-bit number
ShiftLeft32(id) == <<id[1], id[2], 0, 0>>

\* an ID below 2^32 as a 64-bit number
Widen(id) == <<0, 0, id[1], id[2]>>

\* the carry into digit k of the sum of the four-digit numbers a and b
RECURSIVE Carry(_, _, _)
Carry(a, b, k) ==
    IF k = 4 THEN 0
    ELSE (a[k + 1] + b[k + 1] + Carry(a, b, k + 1)) \div DigitBase

\* a + b for two 64-bit numbers (the sum is kept in 64 bits)
Add64(a, b) ==
    [k \in 1..4 |-> (a[k] + b[k] + Carry(a, b, k)) % DigitBase]

kernel(window, center) ==
    LET unique_ids == UniqueIds(window)
        counts == MaskedCounts(unique_ids, Counts(window, unique_ids), center)
    IN IF NpMax(counts) > 0
       THEN LET partner_id == unique_ids[NpArgMax(counts)]
            IN IF Greater(center, partner_id)
               THEN Add64(ShiftLeft32(partner_id), Widen(center))
               ELSE Add64(ShiftLeft32(center), Widen(partner_id))
       ELSE ZeroKey

\* the windows: the voxels of a stencil window, flattened
Windows == UNION {[1..n -> Ids] : n \in 1..MaxWindow}

InitKernel ==
    /\ PipelineIdle
    /\ params = <<>>
    /\ ident = ""
    /\ qs_pc = "not called"
    /\ ii = 0
    /\ job = <<>>
    /\ other_listed = FALSE
    /\ JobsIdle
    /\ PathsIdle
    /\ SuffixIdle
    /\ chunk \in Windows
    /\ center_id \in Ids
    /\ kernel_pc = "called"
    /\ out = <<>>
    /\ ToolsIdle

\* lines 25-39
kernel_returns ==
    /\ kernel_pc = "called"
    /\ out' = kernel(chunk, center_id)
    /\ kernel_pc' = "returned"
    /\ UNCHANGED <<chunk, center_id, not_kernel_vars>>

NextKernel == kernel_returns

SpecKernel == InitKernel /\ [][NextKernel]_vars

(* ---------------- process_block, process_block_nonzero ----------------- *)
\* the lengths of an axis of arr
Sides == {1, MaxSide}
Shapes == Sides \X Sides \X Sides
\* the stencils: every dimension 1, 2 or 3
StencilSizes == {1, 2, 3}
Stencils == StencilSizes \X StencilSizes \X StencilSizes
\* the interpreters the module is written for (cPickle, else pickle: lines 1-4)
PythonVersions == {2, 3}

\* the index triples of an array of the given shape
Voxels(shape) ==
    (0..(shape[1] - 1)) \X (0..(shape[2] - 1)) \X (0..(shape[3] - 1))

\* the segmentations: one object of ID 1, or ID 1 with one voxel of ID 2 or
\* one voxel of background
Arrays(shape) ==
    {[v \in Voxels(shape) |-> <<0, 1>>]} \cup
    {[v \in Voxels(shape) |-> IF v = p THEN id ELSE <<0, 1>>] :
        p \in Voxels(shape), id \in {<<0, 2>>, ZeroId}}

\* the edge arrays: no voxel or every voxel is an edge voxel
EdgeArrays(shape) == {[v \in Voxels(shape) |-> e] : e \in {0, 1}}

\* a[lo:hi] on an axis of length n, as the pair <<first index, end index>>:
\* a negative bound counts from the end, a bound beyond the axis is clipped
SliceBounds(lo, hi, n) ==
    LET Clip(k) == IF k < 0 THEN (IF k + n < 0 THEN 0 ELSE k + n)
                   ELSE (IF k > n THEN n ELSE k)
    IN <<Clip(lo), IF Clip(hi) < Clip(lo) THEN Clip(lo) ELSE Clip(hi)>>

\* the voxels of a[xs[1]:xs[2], ys[1]:ys[2], zs[1]:zs[2]] in the order of
\* the flattened array (last axis fastest)
Ravel(a, xs, ys, zs) ==
    LET nx == xs[2] - xs[1]
        ny == ys[2] - ys[1]
        nz == zs[2] - zs[1]
    IN [i \in 1..(nx * ny * nz) |->
           a[<<xs[1] + ((i - 1) \div (ny * nz)),
               ys[1] + (((i - 1) \div nz) % ny),
               zs[1] + ((i - 1) % nz)>>]]

\* assert np.sum(stencil % 2) == 3 (lines 44 and 64)
StencilIsOdd(s) == (s[1] % 2) + (s[2] % 2) + (s[3] % 2) = 3

\* stencil / 2 under Python 2 and stencil // 2 (lines 47 and 68)
Offset(s) == [k \in 1..3 |-> s[k] \div 2]

\* chunk of process_block (lines 55-57)
BlockWindow(a, shape, offset, v) ==
    Ravel(a,
        SliceBounds(v[1] - offset[1], v[1] + offset[1] + 1, shape[1]),
        SliceBounds(v[2] - offset[2], v[2] + offset[2], shape[2]),
        SliceBounds(v[3] - offset[3], v[3] + offset[3], shape[3]))

\* the voxels the three loops of process_block visit (lines 48-50)
LoopVoxels(shape, offset) ==
    {v \in Voxels(shape) :
        \A k \in 1..3 : offset[k] <= v[k] /\ v[k] < shape[k] - offset[k]}

\* process_block (lines 42-59): the exception raised, or the array returned
process_block(e, a, shape, s, py) ==
    IF ~StencilIsOdd(s) THEN [pc |-> "AssertionError", out |-> <<>>]
    \* stencil / 2 is an array of floats: range() does not take a float
    ELSE IF py = 3 THEN [pc |-> "TypeError", out |-> <<>>]
    ELSE LET offset == Offset(s)
             visited == {v \in LoopVoxels(shape, offset) : e[v] # 0}
         IN \* np.max of the counts of an empty window
            IF \E v \in visited : BlockWindow(a, shape, offset, v) = <<>>
            THEN [pc |-> "ValueError", out |-> <<>>]
            ELSE [pc |-> "returned",
                  out |-> [v \in Voxels(shape) |->
                              IF v \in visited
                              THEN kernel(BlockWindow(a, shape, offset, v), a[v])
                              ELSE ZeroKey]]

\* process_block_nonzero (lines 62-74)
process_block_nonzero(e, a, shape, s) ==
    IF ~StencilIsOdd(s) THEN [pc |-> "AssertionError", out |-> <<>>]
    ELSE LET out_shape == [k \in 1..3 |-> shape[k] - s[k] + 1]
             offset == Offset(s)
             kept == [k \in 1..3 |-> SliceBounds(offset[k], -offset[k], shape[k])]
             \* np.nonzero of the sliced edges: indices within the slice
             nze == {v \in Voxels([k \in 1..3 |-> kept[k][2] - kept[k][1]]) :
                        e[<<v[1] + kept[1][1], v[2] + kept[2][1],
                            v[3] + kept[3][1]>>] # 0}
         IN \* np.zeros of a shape with a negative dimension
            IF \E k \in 1..3 : out_shape[k] < 0
            THEN [pc |-> "ValueError", out |-> <<>>]
            ELSE [pc |-> "returned",
                  out |-> [v \in Voxels(out_shape) |->
                              IF v \in nze
                              THEN kernel(Ravel(a,
                                       SliceBounds(v[1], v[1] + s[1], shape[1]),
                                       SliceBounds(v[2], v[2] + s[2], shape[2]),
                                       SliceBounds(v[3], v[3] + s[3], shape[3])),
                                     a[<<v[1] + offset[1], v[2] + offset[2],
                                         v[3] + offset[3]>>])
                              ELSE ZeroKey]]

InitBlock ==
    /\ PipelineIdle
    /\ OtherInit
    /\ block_fn \in {"process_block", "process_block_nonzero"}
    /\ python \in PythonVersions
    /\ arr_shape \in Shapes
    /\ edges \in EdgeArrays(arr_shape)
    /\ arr \in Arrays(arr_shape)
    /\ stencil \in Stencils
    /\ block_pc = "called"
    /\ block_out = <<>>
    /\ OverlapIdle
    /\ BoxIdle
    /\ VoxelsIdle
    /\ CombineIdle
    /\ BatchIdle
    /\ SkelIdle
    /\ TwoIdle
    /\ GuardIdle
    /\ SemsegIdle
    /\ PredictIdle

call_process_block ==
    /\ block_fn = "process_block"
    /\ block_pc = "called"
    /\ LET r == process_block(edges, arr, arr_shape, stencil, python)
       IN /\ block_pc' = r.pc
          /\ block_out' = r.out
    /\ UNCHANGED <<block_fn, python, edges, arr, arr_shape, stencil, not_block_vars>>

call_process_block_nonzero ==
    /\ block_fn = "process_block_nonzero"
    /\ block_pc = "called"
    /\ LET r == process_block_nonzero(edges, arr, arr_shape, stencil)
       IN /\ block_pc' = r.pc
          /\ block_out' = r.out
    /\ UNCHANGED <<block_fn, python, edges, arr, arr_shape, stencil, not_block_vars>>

NextBlock ==
    \/ call_process_block
    \/ call_process_block_nonzero

SpecBlock == InitBlock /\ [][NextBlock]_vars

(* ------------ overlap of gauss_threshold_connected_components ---------- *)
\* the lists of channels
ChannelLists == {<<"sj">>, <<"sj", "vc">>}
\* a sigma is a multiple of 1 / SigmaDenominator; sigma k stands for
\* k / SigmaDenominator
SigmaValues == 0..MaxSigma
\* sigmas: None, or a list of one or two channels with a sigma for each axis
SigmaArguments ==
    {[given |-> FALSE, list |-> <<>>]} \cup
    {[given |-> TRUE, list |-> l] :
        l \in UNION {[1..n -> [1..3 -> SigmaValues]] : n \in 1..2}}
\* overlap: "auto", or an overlap given by the caller
OverlapArguments ==
    {[auto |-> TRUE, value |-> <<>>], [auto |-> FALSE, value |-> <<0, 0, 0>>]}

\* np.zeros(len(hdf5names)) (line 248): the sigma 0 for every channel, that
\* is 0 on each axis
NpZeros(n) == [c \in 1..n |-> <<0, 0, 0>>]

\* the entries of the array of sigmas
SigmaEntries(list) == UNION {Range(list[c]) : c \in DOMAIN list}

\* mutant of NpMaxSigmas: the smallest sigma
NpMinSigmas(list) ==
    CHOOSE m \in SigmaEntries(list) : \A x \in SigmaEntries(list) : m <= x

\* np.max(sigmas) (line 260)
NpMaxSigmas(list) ==
    CHOOSE m \in SigmaEntries(list) : \A x \in SigmaEntries(list) : x <= m

\* np.ceil(sigma * 4) (line 262)
NpCeilTimes4(sigma) == (4 * sigma + SigmaDenominator - 1) \div SigmaDenominator

InitOverlap ==
    /\ PipelineIdle
    /\ OtherInit
    /\ BlockIdle
    /\ hdf5names \in ChannelLists
    /\ sigmas \in SigmaArguments
    /\ overlap \in OverlapArguments
    /\ stitch_overlap = <<>>
    /\ overlap_pc = "called"
    /\ BoxIdle
    /\ VoxelsIdle
    /\ CombineIdle
    /\ BatchIdle
    /\ SkelIdle
    /\ TwoIdle
    /\ GuardIdle
    /\ SemsegIdle
    /\ PredictIdle

\* lines 245-251: the lengths of sigmas and hdf5names differ (thresholds is
\* None and gets the length of hdf5names)
raise_number_mismatch ==
    /\ overlap_pc = "called"
    /\ sigmas.given
    /\ Len(sigmas.list) # Len(hdf5names)
    /\ overlap_pc' = "Exception"
    /\ UNCHANGED <<hdf5names, sigmas, overlap, stitch_overlap, not_overlap_vars>>

\* lines 245-264
compute_overlap ==
    /\ overlap_pc = "called"
    /\ LET list == IF sigmas.given THEN sigmas.list ELSE NpZeros(Len(hdf5names))
       IN /\ Len(list) = Len(hdf5names)
          /\ stitch_overlap' = <<1, 1, 1>>
          /\ overlap' =
                IF overlap.auto
                THEN [overlap EXCEPT !.value =
                        [k \in 1..3 |-> NpCeilTimes4(NpMaxSigmas(list)) + 1]]
                ELSE overlap
    /\ overlap_pc' = "returned"
    /\ UNCHANGED <<hdf5names, sigmas, not_overlap_vars>>

NextOverlap ==
    \/ raise_number_mismatch
    \/ compute_overlap

SpecOverlap == InitOverlap /\ [][NextOverlap]_vars

(* ------------------- calculate_chunk_numbers_for_box ------------------- *)
\* the chunk sizes of the chunk dataset
ChunkSizes == {<<2, 2, 2>>, <<2, 3, 2>>}
\* the chunk dataset has GridChunks chunks on every axis, the first at 0
GridChunks == 2
\* cset.coord_dict of that dataset: the chunk ids count the chunks, last
\* axis fastest
CoordDict(cs) ==
    [c \in {<<i * cs[1], j * cs[2], k * cs[3]>> :
                i \in 0..(GridChunks - 1), j \in 0..(GridChunks - 1),
                k \in 0..(GridChunks - 1)} |->
        ((c[1] \div cs[1]) * GridChunks + (c[2] \div cs[2])) * GridChunks
            + (c[3] \div cs[3])]

\* the offsets and sizes of the requested box on one axis
BoxOffsets == (-1)..MaxOffset
BoxSizes == 1..MaxBoxSize

\* mutant of SnappedOffset: the offset is left as it is
SnappedOffsetKept(o, cs) == o

\* lines 141-142: offset[dim] -= offset[dim] % chunk_size[dim]
SnappedOffset(o, cs) == o - (o % cs)

\* lines 141-144: the size after the two additions
PaddedSize(o, sz, cs) ==
    LET widened == sz + (o % cs)
    IN widened + ((cs - widened) % cs)

\* range(start, stop, step) for a positive step, as a list
PyRange(start, stop, step) ==
    LET n == IF stop <= start THEN 0 ELSE (stop - start + step - 1) \div step
    IN [i \in 1..n |-> start + (i - 1) * step]

\* the coordinates the three loops visit, in the order of the visits
\* (lines 148-150)
LoopCoordinates(o, sz, cs) ==
    LET xs == PyRange(o[1], o[1] + sz[1], cs[1])
        ys == PyRange(o[2], o[2] + sz[2], cs[2])
        zs == PyRange(o[3], o[3] + sz[3], cs[3])
    IN [i \in 1..(Len(xs) * Len(ys) * Len(zs)) |->
           <<xs[1 + ((i - 1) \div (Len(ys) * Len(zs)))],
             ys[1 + (((i - 1) \div Len(zs)) % Len(ys))],
             zs[1 + ((i - 1) % Len(zs))]>>]

InitBox ==
    /\ PipelineIdle
    /\ OtherInit
    /\ box \in [offset : [1..3 -> BoxOffsets], size : [1..3 -> BoxSizes]]
    /\ box_offset = box.offset
    /\ box_size = box.size
    /\ chunk_size \in ChunkSizes
    /\ coord_dict = CoordDict(chunk_size)
    /\ box_pc = "called"
    /\ box_chunk_list = <<>>
    /\ box_translator = <<>>
    /\ BlockIdle
    /\ OverlapIdle
    /\ VoxelsIdle
    /\ CombineIdle
    /\ BatchIdle
    /\ SkelIdle
    /\ TwoIdle
    /\ GuardIdle
    /\ SemsegIdle
    /\ PredictIdle

\* lines 140-154
calculate_chunk_numbers_for_box ==
    /\ box_pc = "called"
    /\ box_offset' =
          [dim \in 1..3 |-> SnappedOffset(box_offset[dim], chunk_size[dim])]
    /\ box_size' =
          [dim \in 1..3 |->
              PaddedSize(box_offset[dim], box_size[dim], chunk_size[dim])]
    /\ LET visits == LoopCoordinates(box_offset', box_size', chunk_size)
       IN IF \A i \in DOMAIN visits : visits[i] \in DOMAIN coord_dict
          THEN /\ box_chunk_list' = [i \in DOMAIN visits |-> coord_dict[visits[i]]]
               \* translator[chunk_list[-1]] = len(chunk_list) - 1: the last
               \* position of a chunk id in the list, counted from 0
               /\ box_translator' =
                     [id \in {coord_dict[visits[i]] : i \in DOMAIN visits} |->
                         (CHOOSE i \in DOMAIN visits :
                             /\ coord_dict[visits[i]] = id
                             /\ \A j \in DOMAIN visits :
                                    coord_dict[visits[j]] = id => j <= i) - 1]
               /\ box_pc' = "returned"
          ELSE \* cset.coord_dict has no chunk at a visited coordinate
               /\ box_pc' = "KeyError"
               /\ UNCHANGED <<box_chunk_list, box_translator>>
    /\ UNCHANGED <<box, chunk_size, coord_dict, not_box_vars>>

NextBox == calculate_chunk_numbers_for_box

SpecBox == InitBox /\ [][NextBox]_vars

(* ---------------- extract_voxels: the remapping dictionary ------------- *)
\* the object ids a chunk result can report and the values it reports
ObjectIds == {1, 2}
VoxelValues == {"a", "b"}

\* the dictionaries of one chunk result and channel: some ids, one value
ChunkDicts == UNION {[S -> {v}] : S \in SUBSET ObjectIds, v \in VoxelValues}

\* mutant of AppendValue: the entry of a key is overwritten
StoreValue(d, key, value) ==
    [k \in DOMAIN d \cup {key} |-> IF k = key THEN <<value>> ELSE d[k]]

\* remap_dict[key].append(value) on a defaultdict(list) (line 622)
AppendValue(d, key, value) ==
    [k \in DOMAIN d \cup {key} |->
        IF k = key
        THEN (IF key \in DOMAIN d THEN Append(d[key], value) ELSE <<value>>)
        ELSE d[k]]

\* lines 621-622 for one result: the items of a dictionary with distinct
\* keys, in any order
RECURSIVE AppendItems(_, _, _)
AppendItems(d, items, keys) ==
    IF keys = {} THEN d
    ELSE LET key == CHOOSE k \in keys : TRUE
         IN AppendItems(AppendValue(d, key, items[key]), items, keys \ {key})

\* the results are collected (lines 596-615): one per chunk, in the order of
\* multi_params or in the order glob lists the result files
InitVoxels ==
    /\ PipelineIdle
    /\ OtherInit
    /\ \E cl \in {DefaultChunkList(n) : n \in 1..MaxChunks} :
          /\ chunk_results \in [Range(cl) -> [Hdf5NameSet -> ChunkDicts]]
          /\ \E order \in Permutations_(Range(cl)) :
                voxel_results = [i \in DOMAIN order |-> chunk_results[order[i]]]
    /\ channel = 0
    /\ result_nb = 0
    /\ remap_dict = <<>>
    /\ remapping_dict_pkl = <<>>
    /\ voxels_pc = "collected"
    /\ BlockIdle
    /\ OverlapIdle
    /\ BoxIdle
    /\ CombineIdle
    /\ BatchIdle
    /\ SkelIdle
    /\ TwoIdle
    /\ GuardIdle
    /\ SemsegIdle
    /\ PredictIdle

\* line 617, 619: the next channel starts with an empty defaultdict
next_hdf5_name ==
    /\ voxels_pc = "collected"
    /\ channel < Len(Hdf5Names)
    /\ channel' = channel + 1
    /\ result_nb' = 0
    /\ remap_dict' = <<>>
    /\ voxels_pc' = "loop"
    /\ UNCHANGED <<chunk_results, voxel_results, remapping_dict_pkl, not_voxels_vars>>

\* lines 620-622: one result
append_result ==
    /\ voxels_pc = "loop"
    /\ result_nb < Len(voxel_results)
    /\ result_nb' = result_nb + 1
    /\ LET items == voxel_results[result_nb + 1][Hdf5Names[channel]]
       IN remap_dict' = AppendItems(remap_dict, items, DOMAIN items)
    /\ UNCHANGED <<chunk_results, voxel_results, channel, remapping_dict_pkl,
                   voxels_pc,
                   not_voxels_vars>>

\* lines 624-625: the dictionary of the channel is written
dump_remap_dict ==
    /\ voxels_pc = "loop"
    /\ result_nb = Len(voxel_results)
    /\ remapping_dict_pkl' =
          [h \in DOMAIN remapping_dict_pkl \cup {Hdf5Names[channel]} |->
              IF h = Hdf5Names[channel] THEN remap_dict ELSE remapping_dict_pkl[h]]
    /\ voxels_pc' = "collected"
    /\ UNCHANGED <<chunk_results, voxel_results, channel, result_nb, remap_dict,
                   not_voxels_vars>>

\* the loop over hdf5names is through
extract_voxels_returns ==
    /\ voxels_pc = "collected"
    /\ channel = Len(Hdf5Names)
    /\ voxels_pc' = "returned"
    /\ UNCHANGED <<chunk_results, voxel_results, channel, result_nb, remap_dict,
                   remapping_dict_pkl, not_voxels_vars>>

NextVoxels ==
    \/ next_hdf5_name
    \/ append_result
    \/ dump_remap_dict
    \/ extract_voxels_returns

SpecVoxels == InitVoxels /\ [][NextVoxels]_vars

(* ------------------ combine_voxels: buckets and batches ---------------- *)
\* the object ids of the remapping dictionary
SoIds == {7, 100007, 99999, 12345, 1012345}
Strides == 1..MaxStride

\* the decimal digits of the number n >= 0, most significant digit first
RECURSIVE DecimalDigits(_)
DecimalDigits(n) ==
    IF n < 10 THEN <<n>> ELSE Append(DecimalDigits(n \div 10), n % 10)

\* "%.5d" % so_id: at least five digits, filled up with zeros on the left
FormatFiveDigits(n) ==
    LET digits == DecimalDigits(n)
    IN IF Len(digits) >= 5 THEN digits
       ELSE [i \in 1..(5 - Len(digits)) |-> 0] \o digits

\* mutant of LastFive: the first five characters
FirstFive(s) == SubSeq(s, 1, 5)

\* so_id_str[-5:]
LastFive(s) == SubSeq(s, Len(s) - 4, Len(s))

\* values[i:i + stride] for i in xrange(0, len(values), stride), values a list
Blocks(values, step) ==
    [b \in 1..((Len(values) + step - 1) \div step) |->
        SubSeq(values, (b - 1) * step + 1,
               IF b * step < Len(values) THEN b * step ELSE Len(values))]

\* lines 672-676: remapping_dict.pkl is loaded
InitCombine ==
    /\ PipelineIdle
    /\ OtherInit
    /\ so_ids \in UNION {Permutations_(S) : S \in SUBSET SoIds}
    /\ stride \in Strides
    /\ so_id_dict = <<>>
    /\ so_nb = 0
    /\ so_id_blocks = <<>>
    /\ combine_pc = "buckets"
    /\ BlockIdle
    /\ OverlapIdle
    /\ BoxIdle
    /\ VoxelsIdle
    /\ BatchIdle
    /\ SkelIdle
    /\ TwoIdle
    /\ GuardIdle
    /\ SemsegIdle
    /\ PredictIdle

\* lines 679-681: one id
bucket_so_id ==
    /\ combine_pc = "buckets"
    /\ so_nb < Len(so_ids)
    /\ so_nb' = so_nb + 1
    /\ LET so_id == so_ids[so_nb + 1]
           key == LastFive(FormatFiveDigits(so_id))
       IN so_id_dict' = AppendValue(so_id_dict, key, so_id)
    /\ UNCHANGED <<so_ids, stride, so_id_blocks, combine_pc, not_combine_vars>>

\* lines 683-687: so_id_dict.values() lists the buckets in the order of the
\* dictionary, which is any order
append_multi_params ==
    /\ combine_pc = "buckets"
    /\ so_nb = Len(so_ids)
    /\ \E keys \in Permutations_(DOMAIN so_id_dict) :
          so_id_blocks' = Blocks([i \in DOMAIN keys |-> so_id_dict[keys[i]]], stride)
    /\ combine_pc' = "batches"
    /\ UNCHANGED <<so_ids, stride, so_id_dict, so_nb, not_combine_vars>>

NextCombine ==
    \/ bucket_so_id
    \/ append_multi_params

SpecCombine == InitCombine /\ [][NextCombine]_vars

(* ---------------- the batches of QSUB_script and their scripts --------- *)
\* the parameters of a batch: "a" and "b" are objects the script can
\* unpickle, "x" is an object whose class the script cannot import
ParamValues == {"a", "b", "x"}
Unloadable == {"x"}
BatchLists ==
    UNION {[1..n -> UNION {[1..k -> ParamValues] : k \in 0..2}] :
              n \in 1..MaxBatches}

\* pkl.dump(param, f): one pickle, ended by the STOP opcode
Pickle(param) == <<param, ".">>

\* path_to_storage + "job_%d.pkl" % ii and path_to_out + "job_%d.pkl" % ii
\* (lines 61 and 63)
ThisStoragePath(i) == <<"storage", "job", i, "pkl">>
ThisOutPath(i) == <<"out", "job", i, "pkl">>

\* lines 16-22 of the script: pkl.load until it raises, which it does at the
\* end of the file (EOFError) and at a pickle it cannot load
RECURSIVE LoadUntilException(_)
LoadUntilException(pickles) ==
    IF pickles = <<>> \/ pickles[1][1] \in Unloadable THEN <<>>
    ELSE <<pickles[1][1]>> \o LoadUntilException(Tail(pickles))

\* QSUB_script has been called: lines 19-57 have set up the folders
InitBatch ==
    /\ PipelineIdle
    /\ OtherInit
    /\ batches \in BatchLists
    /\ submitted = 0
    /\ storage = <<>>
    /\ sh = <<>>
    /\ script_pc = [i \in DOMAIN batches |-> "not submitted"]
    /\ args = <<>>
    /\ written = [i \in DOMAIN batches |-> {}]
    /\ BlockIdle
    /\ OverlapIdle
    /\ BoxIdle
    /\ VoxelsIdle
    /\ CombineIdle
    /\ SkelIdle
    /\ TwoIdle
    /\ GuardIdle
    /\ SemsegIdle
    /\ PredictIdle

\* lines 60-86 of QSUB_script: job_%d.sh and the storage file are written
\* and the job is handed to qsub (batch ii of the source is batch ii + 1)
submit_batch ==
    /\ submitted < Len(batches)
    /\ LET i == submitted + 1
       IN /\ sh' = [j \in DOMAIN sh \cup {i} |->
                        IF j = i THEN <<ThisStoragePath(i), ThisOutPath(i)>>
                        ELSE sh[j]]
          /\ storage' =
                [p \in DOMAIN storage \cup {ThisStoragePath(i)} |->
                    IF p = ThisStoragePath(i)
                    THEN [k \in DOMAIN batches[i] |-> Pickle(batches[i][k])]
                    ELSE storage[p]]
          /\ script_pc' = [script_pc EXCEPT ![i] = "queued"]
    /\ submitted' = submitted + 1
    /\ UNCHANGED <<batches, args, written, not_batch_vars>>

\* lines 13-22 of the script: sys.argv[1] is read
script_loads_args(i) ==
    /\ script_pc[i] = "queued"
    /\ args' = [j \in DOMAIN args \cup {i} |->
                   IF j = i THEN LoadUntilException(storage[sh[i][1]])
                   ELSE args[j]]
    /\ script_pc' = [script_pc EXCEPT ![i] = "loaded"]
    /\ UNCHANGED <<batches, submitted, storage, sh, written, not_batch_vars>>

\* lines 24-27 of the script: the worker returns and out is written to
\* sys.argv[2]
script_dumps_out(i) ==
    /\ script_pc[i] = "loaded"
    /\ written' = [written EXCEPT ![i] = @ \cup {sh[i][2]}]
    /\ script_pc' = [script_pc EXCEPT ![i] = "done"]
    /\ UNCHANGED <<batches, submitted, storage, sh, args, not_batch_vars>>

\* line 24 of the script: the worker raises
script_worker_raises(i) ==
    /\ script_pc[i] = "loaded"
    /\ script_pc' = [script_pc EXCEPT ![i] = "raised"]
    /\ UNCHANGED <<batches, submitted, storage, sh, args, written, not_batch_vars>>

NextBatch ==
    \/ submit_batch
    \/ \E i \in DOMAIN batches :
          \/ script_loads_args(i)
          \/ script_dumps_out(i)
          \/ script_worker_raises(i)

SpecBatch == InitBatch /\ [][NextBatch]_vars

(* ---------------------------- sparsify_skelcv -------------------------- *)
\* the nodes of the skeletons
SkelNodes == 1..NbSkelNodes
\* the x coordinates of the nodes; all nodes lie on the x axis
Coordinates == {0, 40, 600}
\* the default thresholds (lines 161-162)
MaxDistThresh == 500
MinDistThresh == 50

\* the graphs skelcv2nxgraph builds: undirected, without self-loops
SkelGraphs ==
    {[nodes |-> SkelNodes, edges |-> E] :
        E \in SUBSET {e \in {{a, b} : a, b \in SkelNodes} : Cardinality(e) = 2}}

SkelNeighbours(g, v) == {n \in g.nodes : {n, v} \in g.edges /\ n # v}
Degree(g, v) == Cardinality(SkelNeighbours(g, v))

\* lines 189-200 and 202 for nodes on the x axis: the angle between the two
\* edges is 180 degrees when the neighbours lie on opposite sides of the
\* node, 0 degrees when they lie on the same side and nan when one of them
\* lies on the node; dist is the distance of the neighbours
Removable(pos, v, left_node, right_node) ==
    LET opposite == \/ pos[left_node] < pos[v] /\ pos[v] < pos[right_node]
                    \/ pos[right_node] < pos[v] /\ pos[v] < pos[left_node]
        dist == IF pos[right_node] >= pos[left_node]
                THEN pos[right_node] - pos[left_node]
                ELSE pos[left_node] - pos[right_node]
    IN (opposite /\ dist < MaxDistThresh) \/ dist <= MinDistThresh

\* skel_nx.remove_node(visiting_node); skel_nx.add_edge(left_node, right_node)
RemoveAndBridge(g, v, left_node, right_node) ==
    [nodes |-> g.nodes \ {v},
     edges |-> {e \in g.edges : v \notin e} \cup {{left_node, right_node}}]

InitSkel ==
    /\ PipelineIdle
    /\ OtherInit
    /\ skel \in SkelGraphs
    /\ position \in [SkelNodes -> Coordinates]
    /\ skel_nx = skel
    /\ visiting_nodes = {}
    /\ change = 1
    /\ skel_pc = "while"
    /\ BlockIdle
    /\ OverlapIdle
    /\ BoxIdle
    /\ VoxelsIdle
    /\ CombineIdle
    /\ BatchIdle
    /\ TwoIdle
    /\ GuardIdle
    /\ SemsegIdle
    /\ PredictIdle

\* lines 181-183: a pass starts
start_pass ==
    /\ skel_pc = "while"
    /\ change > 0
    /\ change' = 0
    /\ visiting_nodes' = {k \in skel_nx.nodes : Degree(skel_nx, k) = 2}
    /\ skel_pc' = "for"
    /\ UNCHANGED <<skel, position, skel_nx, not_skel_vars>>

\* lines 184-205: one node of visiting_nodes; the list is made from a set,
\* so the nodes come in any order
visit_node ==
    /\ skel_pc = "for"
    /\ \E visiting_node \in visiting_nodes :
          /\ visiting_nodes' = visiting_nodes \ {visiting_node}
          /\ IF Degree(skel_nx, visiting_node) = 2
             THEN \E left_node, right_node \in SkelNeighbours(skel_nx, visiting_node) :
                     /\ left_node # right_node
                     /\ IF Removable(position, visiting_node, left_node, right_node)
                        THEN /\ skel_nx' = RemoveAndBridge(skel_nx, visiting_node,
                                                           left_node, right_node)
                             /\ change' = change + 1
                        ELSE UNCHANGED <<skel_nx, change>>
             ELSE UNCHANGED <<skel_nx, change>>
    /\ UNCHANGED <<skel, position, skel_pc, not_skel_vars>>

\* the for loop is through
end_pass ==
    /\ skel_pc = "for"
    /\ visiting_nodes = {}
    /\ skel_pc' = "while"
    /\ UNCHANGED <<skel, position, skel_nx, visiting_nodes, change, not_skel_vars>>

\* lines 181 and 206: no node was removed in the last pass
sparsify_skelcv_returns ==
    /\ skel_pc = "while"
    /\ change = 0
    /\ skel_pc' = "returned"
    /\ UNCHANGED <<skel, position, skel_nx, visiting_nodes, change, not_skel_vars>>

NextSkel ==
    \/ start_pass
    \/ visit_node
    \/ end_pass
    \/ sparsify_skelcv_returns

SpecSkel == InitSkel /\ [][NextSkel]_vars

(* ------------- two concurrent invocations of QSUB_script --------------- *)
Invocations == {1, 2}
\* job names: short ones, and two of eleven characters that agree in their
\* first ten
TenTimesA == [i \in 1..10 |-> "a"]
JobNames ==
    {<<"a", "b">>, <<"a", "b", "c">>, <<"c", "a">>,
     Append(TenTimesA, "b"), Append(TenTimesA, "c")}
\* the user of qstat -u
Username == <<"u", "s", "r">>

\* s[:n]
Prefix(s, n) == SubSeq(s, 1, IF Len(s) < n THEN Len(s) ELSE n)

\* s in line, for strings
Contains(line, s) ==
    \E i \in 1..(Len(line) - Len(s) + 1) : SubSeq(line, i, i + Len(s) - 1) = s

\* the line qstat prints for a job: job id, the first ten characters of the
\* name, the user and the state
QstatLine(name) ==
    <<"7", " ">> \o Prefix(name, 10) \o <<" ">> \o Username \o <<" ", "r">>

\* the lines of qstat -u username: one per job that is in the queue
QstatJobs == {<<k, i>> \in Invocations \X (1..MaxParams) :
                 i \in DOMAIN inv_jobs[k] /\ inv_jobs[k][i] = "queued"}

\* nb_lines of the invocation k (lines 94-97)
NbLinesOf(k) ==
    Cardinality({j \in QstatJobs :
        Contains(QstatLine(job_names[j[1]]), Prefix(job_names[k], 10))})

\* both invocations have been called with ident "" and have set up their
\* folders (lines 19-57); each has one or two batches
InitTwo ==
    /\ PipelineIdle
    /\ OtherInit
    /\ job_names \in [Invocations -> JobNames]
    /\ inv_pc = [k \in Invocations |-> "submit"]
    /\ inv_jobs \in [Invocations -> UNION {[1..n -> {"not submitted"}] : n \in 1..2}]
    /\ BlockIdle
    /\ OverlapIdle
    /\ BoxIdle
    /\ VoxelsIdle
    /\ CombineIdle
    /\ BatchIdle
    /\ SkelIdle
    /\ GuardIdle
    /\ SemsegIdle
    /\ PredictIdle

\* lines 60-86: the next job of the invocation is handed to qsub
submits(k) ==
    /\ inv_pc[k] = "submit"
    /\ \E i \in DOMAIN inv_jobs[k] :
          /\ inv_jobs[k][i] = "not submitted"
          /\ \A j \in 1..(i - 1) : inv_jobs[k][j] # "not submitted"
          /\ inv_jobs' = [inv_jobs EXCEPT ![k][i] = "queued"]
    /\ UNCHANGED <<job_names, inv_pc, not_two_vars>>

\* line 88: the submission loop is through
submitted_all(k) ==
    /\ inv_pc[k] = "submit"
    /\ \A i \in DOMAIN inv_jobs[k] : inv_jobs[k][i] # "not submitted"
    /\ inv_pc' = [inv_pc EXCEPT ![k] = "polling"]
    /\ UNCHANGED <<job_names, inv_jobs, not_two_vars>>

\* lines 90-105: one round of the polling loop
polls(k) ==
    /\ inv_pc[k] = "polling"
    /\ inv_pc' = [inv_pc EXCEPT ![k] = IF NbLinesOf(k) = 0 THEN "returned" ELSE @]
    /\ UNCHANGED <<job_names, inv_jobs, not_two_vars>>

\* the scheduler: a job leaves the queue
job_leaves ==
    /\ \E j \in QstatJobs : inv_jobs' = [inv_jobs EXCEPT ![j[1]][j[2]] = "left"]
    /\ UNCHANGED <<job_names, inv_pc, not_two_vars>>

NextTwo ==
    \/ \E k \in Invocations : submits(k) \/ submitted_all(k) \/ polls(k)
    \/ job_leaves

SpecTwo == InitTwo /\ [][NextTwo]_vars

(* ------ apply_merge_list, extract_voxels: slices and job runner guard ---- *)
\* line 573: voxel_rel_paths has one entry per ix in range(100000)
NbVoxelRelPaths == 100000

\* the functions with the branch "raise Exception('QSUB not available')"
GuardedFunctions == {"apply_merge_list", "extract_voxels"}

\* the persisted state the two functions touch: the merge table file, the
\* temporary voxel dataset folder of the channel and the remapping dictionary
\* in it
\* dataset_path = workfolder + "/%s_temp" % hdf5_name, with use_work_dir off
TempDatasetPath(workfolder, hdf5_name) == workfolder \o "/" \o hdf5_name \o "_temp"
RemappingDictPath(workfolder, hdf5_name) ==
    TempDatasetPath(workfolder, hdf5_name) \o "/remapping_dict.pkl"
DiskPaths ==
    {MergeListDictPath(PathHeadFolder, ""),
     TempDatasetPath(PathHeadFolder, Hdf5Names[1]),
     RemappingDictPath(PathHeadFolder, Hdf5Names[1])}

\* a path does not exist ("absent"), holds what an earlier run left ("old"),
\* or holds what this call has written or created ("new")
DisksAtCall ==
    {d \in [DiskPaths -> {"absent", "old"}] :
        d[TempDatasetPath(PathHeadFolder, Hdf5Names[1])] = "absent" =>
            d[RemappingDictPath(PathHeadFolder, Hdf5Names[1])] = "absent"}

\* np.linspace(0, stop, num + 1).astype(np.int): entry i (from 0) is
\* stop * i / num, truncated
NpLinspaceInt(stop, num) == [i \in 1..(num + 1) |-> (stop * (i - 1)) \div num]

\* lines 593-594: the slice of chunk nb_chunk is
\* voxel_rel_paths[block_steps[nb_chunk] : block_steps[nb_chunk + 1]];
\* block_steps has the indices 0..len(chunk_list)
SliceIndexInside(steps, nb_chunk) == nb_chunk + 1 <= Len(steps) - 1
SliceOf(steps, nb_chunk) == <<nb_chunk, steps[nb_chunk + 1], steps[nb_chunk + 2]>>

\* one of the two functions is called for one channel, with a list of distinct
\* chunk ids, with or without qsub parameters
InitGuard ==
    /\ PipelineIdle
    /\ OtherInit
    /\ guard_fn \in GuardedFunctions
    /\ guard_chunk_list \in ChunkLists
    /\ qsub_given \in BOOLEAN
    /\ qsub_available \in BOOLEAN
    /\ disk_at_call \in DisksAtCall
    /\ disk = disk_at_call
    /\ block_steps = <<>>
    /\ path_slices = <<>>
    /\ guard_pc = "called"
    /\ BlockIdle
    /\ OverlapIdle
    /\ BoxIdle
    /\ VoxelsIdle
    /\ CombineIdle
    /\ BatchIdle
    /\ SkelIdle
    /\ TwoIdle
    /\ SemsegIdle
    /\ PredictIdle

\* apply_merge_list, lines 509-518: the table is dumped to
\* merge_list_dict_path, then multi_params gets one entry per chunk
dump_merge_list_dict ==
    /\ guard_fn = "apply_merge_list"
    /\ guard_pc = "called"
    /\ disk' = [disk EXCEPT ![MergeListDictPath(PathHeadFolder, "")] = "new"]
    /\ guard_pc' = "run"
    /\ UNCHANGED <<guard_fn, guard_chunk_list, qsub_given, qsub_available,
                   disk_at_call, block_steps, path_slices, not_guard_vars>>

\* extract_voxels, lines 565-587: the temporary dataset folder of the channel
\* is removed if it exists and made anew with its subfolders; block_steps is
\* computed
make_temp_folders ==
    /\ guard_fn = "extract_voxels"
    /\ guard_pc = "called"
    /\ disk' = [disk EXCEPT
                    ![TempDatasetPath(PathHeadFolder, Hdf5Names[1])] = "new",
                    ![RemappingDictPath(PathHeadFolder, Hdf5Names[1])] = "absent"]
    /\ block_steps' = NpLinspaceInt(NbVoxelRelPaths, Len(guard_chunk_list))
    /\ guard_pc' = "loop"
    /\ UNCHANGED <<guard_fn, guard_chunk_list, qsub_given, qsub_available,
                   disk_at_call, path_slices, not_guard_vars>>

\* extract_voxels, lines 589-594: one round of "for nb_chunk in chunk_list";
\* an index beyond block_steps raises IndexError
append_path_slice ==
    /\ guard_pc = "loop"
    /\ Len(path_slices) < Len(guard_chunk_list)
    /\ LET nb_chunk == guard_chunk_list[Len(path_slices) + 1]
       IN IF SliceIndexInside(block_steps, nb_chunk)
          THEN /\ path_slices' = Append(path_slices, SliceOf(block_steps, nb_chunk))
               /\ guard_pc' = IF Len(path_slices) + 1 = Len(guard_chunk_list)
                              THEN "run" ELSE "loop"
          ELSE /\ guard_pc' = "IndexError"
               /\ UNCHANGED path_slices
    /\ UNCHANGED <<guard_fn, guard_chunk_list, qsub_given, qsub_available,
                   disk_at_call, disk, block_steps, not_guard_vars>>

\* apply_merge_list, lines 523-533, and extract_voxels, lines 596-625: the
\* jobs run locally or through QSUB_script, or the exception is raised;
\* extract_voxels then dumps the remapping dictionary of the channel
run_or_raise ==
    /\ guard_pc = "run"
    /\ IF qsub_given /\ ~qsub_available
       THEN /\ guard_pc' = "Exception"
            /\ UNCHANGED disk
       ELSE /\ guard_pc' = "returned"
            /\ disk' = IF guard_fn = "extract_voxels"
                       THEN [disk EXCEPT
                                ![RemappingDictPath(PathHeadFolder, Hdf5Names[1])] = "new"]
                       ELSE disk
    /\ UNCHANGED <<guard_fn, guard_chunk_list, qsub_given, qsub_available,
                   disk_at_call, block_steps, path_slices, not_guard_vars>>

NextGuard ==
    \/ dump_merge_list_dict
    \/ make_temp_folders
    \/ append_path_slice
    \/ run_or_raise

SpecGuard == InitGuard /\ [][NextGuard]_vars

(* -------------------- QSUB_predict_axoness_semseg ---------------------- *)
\* the batches: the SSV ids 1..n
SsvBatches == {[i \in 1..n |-> i] : n \in 1..MaxSsvs}

\* line 36
NWorker == 4

\* basics.chunkify(ch, n): ch in n sub-chunks, ch[i::n] for i in range(n); for
\* a batch of fewer than n SSVs one sub-chunk per SSV
Chunkify(lst, n) ==
    LET m == IF Len(lst) < n THEN Len(lst) ELSE n
    IN [i \in 1..m |-> {lst[k] : k \in {j \in DOMAIN lst : (j - 1) % m = i - 1}}]

\* semsegaxoness_predictor: the SSVs of the sub-chunk whose prediction failed
SemsegaxonessPredictor(ch_sub, failing) == ch_sub \cap failing

\* the entry of a sub-chunk no worker has returned yet
NoResult == [returned |-> FALSE, failed |-> {}]

\* the script has been started by the job of its batch and has loaded args
\* (lines 19-35); the result file of the batch does not exist
InitSemseg ==
    /\ PipelineIdle
    /\ OtherInit
    /\ ch \in SsvBatches
    /\ failing_ssvs \in SUBSET Range(ch)
    /\ semseg_res = [i \in DOMAIN Chunkify(ch, NWorker * 2) |-> NoResult]
    /\ missing = {}
    /\ stdout = <<>>
    /\ path_out_file = "absent"
    /\ semseg_pc = "imap"
    /\ BlockIdle
    /\ OverlapIdle
    /\ BoxIdle
    /\ VoxelsIdle
    /\ CombineIdle
    /\ BatchIdle
    /\ SkelIdle
    /\ TwoIdle
    /\ GuardIdle
    /\ PredictIdle

\* lines 37-39: a worker of start_multiprocess_imap returns the result of one
\* sub-chunk
semsegaxoness_predictor ==
    /\ semseg_pc = "imap"
    /\ \E i \in DOMAIN semseg_res :
         /\ ~semseg_res[i].returned
         /\ semseg_res' = [semseg_res EXCEPT ![i] =
                [returned |-> TRUE,
                 failed |-> SemsegaxonessPredictor(Chunkify(ch, NWorker * 2)[i],
                                                   failing_ssvs)]]
    /\ UNCHANGED <<ch, failing_ssvs, missing, stdout, path_out_file, semseg_pc,
                   not_semseg_vars>>

\* lines 39-45: every sub-chunk has returned; the failed SSVs are
\* concatenated and printed, and None is dumped to the result file
report_and_dump ==
    /\ semseg_pc = "imap"
    /\ \A i \in DOMAIN semseg_res : semseg_res[i].returned
    /\ LET concatenated == UNION {semseg_res[i].failed : i \in DOMAIN semseg_res}
       IN /\ missing' = concatenated
          /\ stdout' = IF Cardinality(concatenated) > 0
                       THEN Append(stdout, "ERROR: Sem. seg. prediction failed.")
                       ELSE stdout
    /\ path_out_file' = "written"
    /\ semseg_pc' = "exited"
    /\ UNCHANGED <<ch, failing_ssvs, semseg_res, not_semseg_vars>>

NextSemseg ==
    \/ semsegaxoness_predictor
    \/ report_and_dump

SpecSemseg == InitSemseg /\ [][NextSemseg]_vars

(* --------------------- predict_dataset, pred_dataset ------------------- *)
\* the chunks of the chunk dataset, in the order of ch_dc.values()
PredChunks == 1..NbPredChunks

\* the gpu_ids arguments: one id as an int, or a tuple of one or more ids
GpuArguments ==
    {[is_int |-> TRUE, ids |-> <<0>>]} \cup
    {[is_int |-> FALSE, ids |-> [k \in 1..n |-> k - 1]] : n \in 1..MaxGpus}

\* the function of the innermost frame
Top(stack) == stack[Len(stack)]

\* lines 373-374: isinstance(gpu_ids, int) or len(gpu_ids) == 1
SingleGpu(ids) == ids.is_int \/ Len(ids.ids) = 1

\* ch_dc.values()[i::n]: the chunks of the thread at position k of n
PartialChunks(k, n) == {c \in PredChunks : (c - 1) % n = k - 1}

\* the chunk needs no prediction: overwrite is off and load_chunk("pred")
\* finds the prediction of an earlier run (lines 439-444)
KeepsEarlier(state, ow) == ~ow /\ state = "earlier"

\* one of the two entry points is called; with overwrite off some chunks may
\* hold the prediction of an earlier run
InitPredict ==
    /\ PipelineIdle
    /\ OtherInit
    /\ call_stack \in {<<"predict_dataset">>, <<"pred_dataset">>}
    /\ gpu_ids \in GpuArguments
    /\ overwrite \in BOOLEAN
    /\ pred_chunks \in [PredChunks -> {"none", "earlier"}]
    /\ chunk_nb = 0
    /\ threads = [k \in DOMAIN gpu_ids.ids |-> "not started"]
    /\ predict_pc = "called"
    /\ BlockIdle
    /\ OverlapIdle
    /\ BoxIdle
    /\ VoxelsIdle
    /\ CombineIdle
    /\ BatchIdle
    /\ SkelIdle
    /\ TwoIdle
    /\ GuardIdle
    /\ SemsegIdle

\* lines 337-340: pred_dataset warns and calls pred_dataset; the interpreter
\* ends the recursion with RecursionError
pred_dataset ==
    /\ predict_pc = "called"
    /\ Top(call_stack) = "pred_dataset"
    /\ IF Len(call_stack) < RecursionLimit
       THEN /\ call_stack' = Append(call_stack, "pred_dataset")
            /\ UNCHANGED predict_pc
       ELSE /\ predict_pc' = "RecursionError"
            /\ UNCHANGED call_stack
    /\ UNCHANGED <<gpu_ids, overwrite, pred_chunks, chunk_nb, threads,
                   not_predict_vars>>

\* lines 373-380: predict_dataset calls _pred_dataset with gpu_ids as gpu_id,
\* or _multi_gpu_ds_pred; line 437 of _pred_dataset formats gpu_id with %d,
\* which raises TypeError for a tuple
predict_dataset ==
    /\ predict_pc = "called"
    /\ Top(call_stack) = "predict_dataset"
    /\ IF SingleGpu(gpu_ids)
       THEN /\ call_stack' = Append(call_stack, "_pred_dataset")
            /\ predict_pc' = IF gpu_ids.is_int THEN "chunks" ELSE "TypeError"
       ELSE /\ call_stack' = Append(call_stack, "_multi_gpu_ds_pred")
            /\ predict_pc' = "threads"
    /\ UNCHANGED <<gpu_ids, overwrite, pred_chunks, chunk_nb, threads,
                   not_predict_vars>>

\* lines 439-448: one round of the loop over the chunks
chunk_pred ==
    /\ predict_pc = "chunks"
    /\ chunk_nb < NbPredChunks
    /\ pred_chunks' = [pred_chunks EXCEPT ![chunk_nb + 1] =
                          IF KeepsEarlier(@, overwrite) THEN @ ELSE "predicted"]
    /\ chunk_nb' = chunk_nb + 1
    /\ UNCHANGED <<call_stack, gpu_ids, overwrite, threads, predict_pc,
                   not_predict_vars>>

\* a KeyboardInterrupt during the loop: with overwrite it is caught and
\* _pred_dataset returns (lines 449-451), without it propagates
keyboard_interrupt ==
    /\ predict_pc = "chunks"
    /\ chunk_nb < NbPredChunks
    /\ IF overwrite
       THEN /\ predict_pc' = "returned"
            /\ call_stack' = <<call_stack[1]>>
       ELSE /\ predict_pc' = "KeyboardInterrupt"
            /\ UNCHANGED call_stack
    /\ UNCHANGED <<gpu_ids, overwrite, pred_chunks, chunk_nb, threads,
                   not_predict_vars>>

\* lines 452-459 and 375: the loop is through, the dataset is saved and
\* exported, _pred_dataset and predict_dataset return
pred_dataset_returns ==
    /\ predict_pc = "chunks"
    /\ chunk_nb = NbPredChunks
    /\ predict_pc' = "returned"
    /\ call_stack' = <<call_stack[1]>>
    /\ UNCHANGED <<gpu_ids, overwrite, pred_chunks, chunk_nb, threads,
                   not_predict_vars>>

\* lines 675-678: one round of the loop over gpu_ids starts a daemon thread
start_thread ==
    /\ predict_pc = "threads"
    /\ \E k \in DOMAIN threads :
         /\ threads[k] = "not started"
         /\ \A j \in 1..(k - 1) : threads[j] # "not started"
         /\ threads' = [threads EXCEPT ![k] = "running"]
    /\ UNCHANGED <<call_stack, gpu_ids, overwrite, pred_chunks, chunk_nb,
                   predict_pc, not_predict_vars>>

\* the loop over gpu_ids is through: _multi_gpu_ds_pred and predict_dataset
\* return (no thread is joined)
multi_gpu_ds_pred_returns ==
    /\ predict_pc = "threads"
    /\ \A k \in DOMAIN threads : threads[k] # "not started"
    /\ predict_pc' = "returned"
    /\ call_stack' = <<call_stack[1]>>
    /\ UNCHANGED <<gpu_ids, overwrite, pred_chunks, chunk_nb, threads,
                   not_predict_vars>>

\* lines 668-673: the process a thread has started with os.system predicts
\* one of its chunks, or is through with them
start_partial_pred ==
    /\ \E k \in DOMAIN threads :
         /\ threads[k] = "running"
         /\ LET todo == {c \in PartialChunks(k, Len(threads)) :
                            pred_chunks[c] # "predicted"}
            IN IF todo = {}
               THEN /\ threads' = [threads EXCEPT ![k] = "done"]
                    /\ UNCHANGED pred_chunks
               ELSE /\ \E c \in todo :
                         /\ \A d \in todo : c <= d
                         /\ pred_chunks' = [pred_chunks EXCEPT ![c] = "predicted"]
                    /\ UNCHANGED threads
    /\ UNCHANGED <<call_stack, gpu_ids, overwrite, chunk_nb, predict_pc,
                   not_predict_vars>>

NextPredict ==
    \/ pred_dataset
    \/ predict_dataset
    \/ chunk_pred
    \/ keyboard_interrupt
    \/ pred_dataset_returns
    \/ start_thread
    \/ multi_gpu_ds_pred_returns
    \/ start_partial_pred

SpecPredict == InitPredict /\ [][NextPredict]_vars

(* ===================== properties of the base allocation =============== *)
Allocated == pc \in {"max_labels", "unique_labels"}
NbChunks == Len(chunk_list)
\* number of components of the chunk at position i of chunk_list
LocalCount(h, i) == cc_count[chunk_list[i]][h]

\* the mathematical sum of the counts of the chunks at positions 1..k
RECURSIVE CountSum(_, _)
CountSum(h, k) == IF k = 0 THEN 0 ELSE CountSum(h, k - 1) + LocalCount(h, k)

\* the global ids stored for the foreground voxels of chunk c
GlobalIds(c, h) == {cc_labels[c][h][i] : i \in 2..Len(cc_labels[c][h])}

\* C1: for every channel the base of the chunk at position i of chunk_list is
\* the sum of the component counts of the chunks before it; the first base is
\* 0 and base[i+1] - base[i] is the count of the chunk at position i.
C1_BaseIsExclusivePrefixSum ==
    Allocated =>
        \A h \in Hdf5NameSet :
            /\ Len(max_nb_dict[h]) = NbChunks
            /\ max_nb_dict[h][1] = 0
            /\ \A i \in 1..NbChunks : max_nb_dict[h][i] = CountSum(h, i - 1)
            /\ \A i \in 1..(NbChunks - 1) :
                   max_nb_dict[h][i + 1] - max_nb_dict[h][i] = LocalCount(h, i)

\* three chunks, listed out of id order, with different positive counts
C1_Witness ==
    /\ Allocated
    /\ NbChunks = 3
    /\ chunk_list[1] > chunk_list[2]
    /\ \E h \in Hdf5NameSet :
          /\ LocalCount(h, 1) = 1
          /\ LocalCount(h, 2) = 2
          /\ max_nb_dict[h] = <<0, 1, 3>>

\* C2: after make_unique_labels the global ids of a chunk are exactly
\* base + 1 .. base + count, the id sets of two chunks of chunk_list are
\* disjoint, together they are 1..max_labels without a gap, and no foreground
\* voxel holds 0 while the background voxel still does.
C2_GlobalRangesDisjointContiguous ==
    pc = "unique_labels" =>
        \A h \in Hdf5NameSet :
            /\ \A i \in 1..NbChunks :
                  /\ GlobalIds(chunk_list[i], h) =
                        {max_nb_dict[h][i] + l : l \in 1..LocalCount(h, i)}
                  /\ Cardinality(GlobalIds(chunk_list[i], h)) = LocalCount(h, i)
                  /\ 0 \notin GlobalIds(chunk_list[i], h)
                  /\ cc_labels[chunk_list[i]][h][1] = 0
            /\ \A i, j \in 1..NbChunks :
                  i # j => GlobalIds(chunk_list[i], h)
                              \cap GlobalIds(chunk_list[j], h) = {}
            /\ UNION {GlobalIds(chunk_list[i], h) : i \in 1..NbChunks}
                  = 1..max_labels[h]

\* three chunks that all hold components, one of them two
C2_Witness ==
    /\ pc = "unique_labels"
    /\ NbChunks = 3
    /\ \E h \in Hdf5NameSet :
          /\ \A i \in 1..3 : LocalCount(h, i) >= 1
          /\ LocalCount(h, 2) = 2
          /\ max_labels[h] >= 4
          /\ GlobalIds(chunk_list[3], h) # {}

\* C3 as stated: the bases are strictly increasing in chunk_list order.
C3_StrictlyIncreasing ==
    Allocated =>
        \A h \in Hdf5NameSet :
            \A i, j \in 1..NbChunks :
                i < j => max_nb_dict[h][i] < max_nb_dict[h][j]

\* C3 amended: the bases never decrease in chunk_list order, and the base of
\* the next chunk is larger exactly when the chunk holds a component.
C3_NonDecreasing ==
    Allocated =>
        \A h \in Hdf5NameSet :
            /\ \A i, j \in 1..NbChunks :
                  i < j => max_nb_dict[h][i] <= max_nb_dict[h][j]
            /\ \A i \in 1..(NbChunks - 1) :
                  (max_nb_dict[h][i] < max_nb_dict[h][i + 1])
                      <=> (LocalCount(h, i) > 0)

\* a chunk without component followed by chunks with components
C3_Witness ==
    /\ Allocated
    /\ NbChunks = 3
    /\ \E h \in Hdf5NameSet :
          /\ LocalCount(h, 1) = 0
          /\ LocalCount(h, 2) > 0
          /\ max_nb_dict[h][1] = max_nb_dict[h][2]
          /\ max_nb_dict[h][2] < max_nb_dict[h][3]

\* C4: whatever the order in which the per-chunk results arrived, the counts
\* per position, the bases and max_labels are those obtained when the
\* results arrive in chunk_list order: they depend on chunk_list and the
\* counts only.
C4_BasesIndependentOfArrivalOrder ==
    Allocated =>
        LET nb == StoreCounts(ResultsAsList(chunk_list, cc_count),
                              ChunkTranslator(chunk_list),
                              [h \in Hdf5NameSet |-> Zeros(NbChunks)])
        IN /\ nb = nb_cc_dict
           /\ MaxNbDict(nb) = max_nb_dict
           /\ MaxLabels(nb, MaxNbDict(nb)) = max_labels

\* results globbed in another order than chunk_list, with differing counts
C4_Witness ==
    /\ Allocated
    /\ qsub
    /\ NbChunks = 3
    /\ cc_info_list # ResultsAsList(chunk_list, cc_count)
    /\ \E h \in Hdf5NameSet :
          /\ LocalCount(h, 1) # LocalCount(h, 2)
          /\ LocalCount(h, 2) # LocalCount(h, 3)

(* ===================== properties of make_merge_list =================== *)
Merged == pc \in {"merge_list", "apply_merge_list"}

\* the connected component of id x in the graph of the stitch edges of
\* channel h; an id that occurs in no edge is a component of its own
Component(h, x) ==
    IF x \in Nodes(stitch_list[h]) THEN Reach(stitch_list[h], {x}) ELSE {x}

SetMin(S) == CHOOSE m \in S : \A x \in S : m <= x

\* the stitch lists with the edges of sl in another order, each edge in
\* either orientation
Reorderings(sl) ==
    {p \in [DOMAIN sl -> Range(sl) \cup {<<e[2], e[1]>> : e \in Range(sl)}] :
        \E perm \in Permutations_(DOMAIN sl) :
            \A i \in DOMAIN sl :
                \/ p[i] = sl[perm[i]]
                \/ p[i] = <<sl[perm[i]][2], sl[perm[i]][1]>>}

\* the label arrays make_unique_labels left in the chunks
UniqueLabels(c) ==
    MakeUniqueLabelsThread([h \in Hdf5NameSet |-> LabelArray(cc_count[c][h])],
                           ThisMaxNbDict(c, chunk_list, max_nb_dict))

\* C5: every id of a connected component of the stitch-edge graph is mapped
\* to the minimum id of that component.
C5_MappedToComponentMinimum ==
    Merged =>
        \A h \in Hdf5NameSet :
            \A x \in 1..max_labels[h] :
                merge_list_dict[h][x] = SetMin(Component(h, x))

\* C6: two ids of 1..max_label get the same canonical id exactly when they
\* lie in the same connected component of the stitch-edge graph, so there
\* are as many final ids as components and two ids joined by a stitch edge
\* end as one object.
C6_SameIdIffSameComponent ==
    Merged =>
        \A h \in Hdf5NameSet :
            /\ \A x, y \in 1..max_labels[h] :
                  (merge_list_dict[h][x] = merge_list_dict[h][y])
                      <=> (Component(h, x) = Component(h, y))
            /\ Cardinality({merge_list_dict[h][x] : x \in 1..max_labels[h]})
                  = Cardinality({Component(h, x) : x \in 1..max_labels[h]})
            /\ \A i \in DOMAIN stitch_list[h] :
                  merge_list_dict[h][stitch_list[h][i][1]]
                      = merge_list_dict[h][stitch_list[h][i][2]]

\* a component of three ids beside an id outside of it
C6_Witness ==
    /\ Merged
    /\ \E h \in Hdf5NameSet :
          \E x, y \in 1..max_labels[h] :
              /\ Cardinality(Component(h, x)) >= 3
              /\ y \notin Component(h, x)
              /\ merge_list_dict[h][x] # merge_list_dict[h][y]

\* C7: the table is idempotent, and applying it to the labels that
\* apply_merge_list has already rewritten changes no label.
C7_RemapIdempotent ==
    Merged =>
        /\ \A h \in Hdf5NameSet :
              \A x \in 0..max_labels[h] :
                  merge_list_dict[h][merge_list_dict[h][x]] = merge_list_dict[h][x]
        /\ pc = "apply_merge_list" =>
              \A c \in Range(chunk_list) :
                  ApplyMergeListThread(cc_labels[c], merge_list_dict_pkl)
                      = cc_labels[c]

\* the table has been applied and has changed a label of some chunk
C7_Witness ==
    /\ pc = "apply_merge_list"
    /\ \E c \in Range(chunk_list) : cc_labels[c] # UniqueLabels(c)
    /\ \E h \in Hdf5NameSet : Cardinality(Nodes(stitch_list[h])) >= 3

\* C8: every reordering and reorientation of the stitch edges makes
\* make_merge_list return the table it returned for the list as given.
C8_SameTableForEveryEdgeOrder ==
    Merged =>
        \A h \in Hdf5NameSet :
            \A p \in Reorderings(stitch_list[h]) :
                \A r \in MakeMergeList(p, max_labels[h]) :
                    r[2] = merge_list_dict[h]

\* C9: an id of 1..max_label that occurs in no stitch edge keeps its id.
C9_IsolatedIdsKeepTheirId ==
    Merged =>
        \A h \in Hdf5NameSet :
            \A x \in 1..max_labels[h] :
                x \notin Nodes(stitch_list[h]) => merge_list_dict[h][x] = x

\* an id without stitch edge beside ids that were merged
C9_Witness ==
    /\ Merged
    /\ \E h \in Hdf5NameSet :
          \E x, y \in 1..max_labels[h] :
              /\ x \notin Nodes(stitch_list[h])
              /\ merge_list_dict[h][x] = x
              /\ merge_list_dict[h][y] # y

ChunksWithResult == {cc_info_list[i][1] : i \in DOMAIN cc_info_list}

\* C11: when the result of a chunk of chunk_list is missing from the collected
\* results, no bases are computed and no later stage is started; in
\* particular no count of 0 is stored for a chunk without result.
C11_MissingResultStopsTheRun ==
    Allocated => Range(chunk_list) \subseteq ChunksWithResult

(* ====================== properties of QSUB_script ====================== *)
\* QSUB_script returns path_to_out and nothing else: no batch is reported
ReportedAsFailed == {}

\* C12: when the polling has ended and QSUB_script has returned, every
\* submitted batch has its result file or has been reported as failed.
C12_NoBatchSilentlyDropped ==
    (qs_pc = "returned" /\ Len(ident) = 0) =>
        \A i \in DOMAIN params :
            i \in OutFilesOfJobs \/ i \in ReportedAsFailed

\* C13: whatever the arguments, QSUB_script has returned only when no job it
\* submitted is still listed by the scheduler.
C13_ReturnsAfterAllJobsLeft ==
    qs_pc = "returned" => Listed = {}

(* ============ properties of the stages of the pipeline ================= *)
\* the order of the stages the pipeline is required to keep
RequiredOrder ==
    <<"cc", "max_labels", "unique_labels", "stitch_list", "merge_list",
      "apply_merge_list", "extract_voxels">>

RequiredPosition(stage) ==
    CHOOSE k \in DOMAIN RequiredOrder : RequiredOrder[k] = stage

\* the stages that are complete when pc holds done
CompletedStages(done) ==
    CASE done = "start" -> {}
      [] done = "TypeError" -> Range(RequiredOrder) \ {"extract_voxels"}
      [] done = "returned" -> Range(RequiredOrder)
      [] OTHER -> {RequiredOrder[k] : k \in 1..RequiredPosition(done)}

\* C14: a job of a stage is started only when every stage that precedes it
\* in the order connected components, base allocation, make_unique_labels,
\* make_stitch_list, make_merge_list, apply_merge_list, extract_voxels is
\* complete, all jobs of the preceding job stages having returned.
C14_StagesInOrderBehindBarriers ==
    /\ \A j \in started :
          \A k \in 1..(RequiredPosition(j[1]) - 1) :
              /\ RequiredOrder[k] \in CompletedStages(pc)
              /\ RequiredOrder[k] \in JobStages =>
                    \A c \in Range(chunk_list) :
                        <<RequiredOrder[k], c>> \in finished
    /\ \A stage \in CompletedStages(pc) \cap JobStages :
          \A c \in Range(chunk_list) : <<stage, c>> \in finished
    /\ finished \subseteq started

\* the jobs of apply_merge_list run while those of the stages before are done
C14_Witness ==
    /\ Len(chunk_list) = 3
    /\ call = "apply_merge_list"
    /\ \E c, d \in Range(chunk_list) :
          /\ <<"apply_merge_list", c>> \in finished
          /\ <<"apply_merge_list", d>> \in started \ finished
    /\ \E h \in Hdf5NameSet : stitch_list[h] # <<>>

\* C15: a run in which every job succeeds completes the voxel extraction
\* and returns.
C15_RunCompletes == <>(pc = "returned")

(* ============== properties of the two job runner paths ================= *)
\* the lists s and t hold the same entries, each as often
SameEntries(s, t) ==
    /\ Len(s) = Len(t)
    /\ \A x \in Range(s) \cup Range(t) :
          Cardinality({i \in DOMAIN s : s[i] = x})
              = Cardinality({i \in DOMAIN t : t[i] = x})

\* the aggregated results a and b of stage function f are equal as multisets
SameAggregate(f, a, b) ==
    CASE f = "gauss_threshold_connected_components" -> SameEntries(a, b)
      [] f = "make_stitch_list" ->
            \A h \in Hdf5NameSet : SameEntries(a[h], b[h])
      [] f = "extract_ids" ->
            \A h \in Hdf5NameSet :
                /\ DOMAIN a[h] = DOMAIN b[h]
                /\ \A this_id \in DOMAIN a[h] :
                      SameEntries(a[h][this_id], b[h][this_id])

\* C16: whichever job runner is used, the worker has run once on every batch
\* and the aggregated result holds the entries the local path produces from
\* the same worker results.
C16_QsubPathEqualsLocalPath ==
    fn_pc = "returned" =>
        /\ \A c \in DOMAIN worker_runs : worker_runs[c] = 1
        /\ SameAggregate(fn, aggregated,
                         Aggregate(fn, LocalResults(Batches, worker_results)))

\* the part of C16 that holds: gauss_threshold_connected_components and
\* make_stitch_list
C16_HoldsForGaussAndStitch ==
    fn # "extract_ids" => C16_QsubPathEqualsLocalPath

(* ======= properties of two runs with different suffixes ================ *)
\* C17: every apply_merge_list worker of a run loads the merge table its own
\* run has written, whatever the interleaving with a run that uses another
\* suffix on the same chunk dataset.
C17_WorkersReadTheirOwnTable ==
    \A r \in DOMAIN loaded :
        \A c \in DOMAIN loaded[r] :
            loaded[r][c] # <<>> => loaded[r][c] = run_table[r]

(* ========================= properties of kernel ======================== *)
\* the IDs of the window other than 0 and center_id
Candidates == Range(chunk) \ {ZeroId, center_id}

\* how often the ID x occurs in the window
Occurrences(x) == Cardinality({i \in DOMAIN chunk : chunk[i] = x})

\* the candidates that occur most often
MostFrequent ==
    {x \in Candidates : \A y \in Candidates : Occurrences(y) <= Occurrences(x)}

\* the upper and the lower 32 bits of a 64-bit key
Upper32(key) == <<key[1], key[2]>>
Lower32(key) == <<key[3], key[4]>>

\* the window with the voxels at positions i and j exchanged
Exchanged(window, i, j) ==
    [k \in DOMAIN window |->
        IF k = i THEN window[j] ELSE IF k = j THEN window[i] ELSE window[k]]

\* C18: kernel returns 0 exactly when the window holds no ID other than 0 and
\* center_id; otherwise the returned key is made of center_id and an ID that
\* occurs most often among the IDs other than 0 and center_id.
C18_KeyOfMostFrequentCandidate ==
    kernel_pc = "returned" =>
        /\ (out = ZeroKey) <=> (Candidates = {})
        /\ Candidates # {} =>
              \E partner_id \in MostFrequent :
                  {Upper32(out), Lower32(out)} = {center_id, partner_id}

\* the window holds center_id and two candidates, and the larger candidate
\* occurs more often than the smaller one
C18_Witness ==
    /\ kernel_pc = "returned"
    /\ out # ZeroKey
    /\ center_id # ZeroId
    /\ center_id \in Range(chunk)
    /\ \E x \in Candidates, y \in MostFrequent :
          /\ Greater(y, x)
          /\ Occurrences(x) < Occurrences(y)
          /\ y \in {Upper32(out), Lower32(out)}

C20_SmallestOfTheTiedIds ==
    kernel_pc = "returned" =>
        /\ Candidates # {} =>
              \E partner_id \in MostFrequent :
                  /\ \A x \in MostFrequent : ~Greater(partner_id, x)
                  /\ out = kernel(<<partner_id>>, center_id)
        /\ \A i, j \in DOMAIN chunk :
              kernel(Exchanged(chunk, i, j), center_id) = out

\* three candidates tie and the smallest of them is not the first voxel
C20_Witness ==
    /\ kernel_pc = "returned"
    /\ Cardinality(MostFrequent) = 3
    /\ \E x \in MostFrequent : Greater(chunk[1], x)
    /\ \E x \in MostFrequent :
          /\ \A y \in MostFrequent : ~Greater(x, y)
          /\ x \in {Upper32(out), Lower32(out)}

(* ------------- process_block, process_block_nonzero ------------------- *)
\* the voxels at least stencil // 2 away from the border of arr on each axis
Interior ==
    {v \in Voxels(arr_shape) :
        \A k \in 1..3 : /\ stencil[k] \div 2 <= v[k]
                        /\ v[k] + (stencil[k] \div 2) <= arr_shape[k] - 1}

\* the voxel itself and stencil // 2 voxels on both sides of it on every axis
FullWindow(v) ==
    {w \in Voxels(arr_shape) :
        \A k \in 1..3 : /\ v[k] - (stencil[k] \div 2) <= w[k]
                        /\ w[k] <= v[k] + (stencil[k] \div 2)}

\* the IDs other than 0 and the centre's that the voxels of the set W hold
PartnersIn(W, v) == {arr[w] : w \in W} \ {ZeroId, arr[v]}

\* C21: process_block evaluates kernel on the full stencil window of every
\* edge voxel that is stencil // 2 or more away from the border: a voxel of
\* another object anywhere in that window gives the edge voxel a key.
C21_FullWindowEvaluated ==
    (block_fn = "process_block" /\ block_pc = "returned") =>
        \A v \in Interior :
            (edges[v] # 0 /\ PartnersIn(FullWindow(v), v) # {}) =>
                block_out[v] # ZeroKey

\* C22: both functions raise the AssertionError for a stencil with an even
\* dimension and return an array for a stencil with three odd dimensions.
C22_OddStencilsAccepted ==
    block_pc # "called" =>
        /\ ~StencilIsOdd(stencil) => block_pc = "AssertionError" /\ block_out = <<>>
        /\ StencilIsOdd(stencil) => block_pc = "returned"

\* the array is at least as large as the stencil on every axis
StencilFits == \A k \in 1..3 : stencil[k] <= arr_shape[k]

\* the shape of the output of process_block_nonzero
NonzeroShape == [k \in 1..3 |-> arr_shape[k] - stencil[k] + 1]

\* the position of arr that belongs to the position v of the smaller output
Shifted(v) == [k \in 1..3 |-> v[k] + (stencil[k] \div 2)]

\* C32: for an all-odd stencil the two functions agree on the interior: the
\* output of process_block_nonzero at (x, y, z) is the output of
\* process_block at (x, y, z) + stencil // 2, and process_block writes 0
\* outside the interior.
C32_NonzeroAgreesWithBlockOnInterior ==
    (block_pc # "called" /\ StencilIsOdd(stencil) /\ StencilFits) =>
        LET out_block == process_block(edges, arr, arr_shape, stencil, python)
            out_nonzero == process_block_nonzero(edges, arr, arr_shape, stencil)
        IN /\ out_block.pc = "returned"
           /\ out_nonzero.pc = "returned"
           /\ \A v \in Voxels(NonzeroShape) :
                  out_nonzero.out[v] = out_block.out[Shifted(v)]
           /\ \A v \in Voxels(arr_shape) \ Interior : out_block.out[v] = ZeroKey

\* C33: for every all-odd stencil, a dimension of 1 included,
\* process_block_nonzero gives every edge voxel whose full window lies inside
\* the array the value of kernel on that window, and 0 to every other
\* position of its output.
C33_NonzeroEvaluatesEveryInteriorEdgeVoxel ==
    (block_fn = "process_block_nonzero" /\ block_pc # "called"
        /\ StencilIsOdd(stencil) /\ StencilFits) =>
        /\ block_pc = "returned"
        /\ \A v \in Voxels(NonzeroShape) :
               block_out[v] =
                   IF edges[Shifted(v)] # 0
                   THEN kernel(Ravel(arr, <<v[1], v[1] + stencil[1]>>,
                                          <<v[2], v[2] + stencil[2]>>,
                                          <<v[3], v[3] + stencil[3]>>),
                               arr[Shifted(v)])
                   ELSE ZeroKey

\* C34: every nonzero key in the output of process_block or
\* process_block_nonzero holds two IDs that differ and are both not the
\* background ID 0.
C34_KeysHoldTwoDistinctObjects ==
    block_pc = "returned" =>
        \A v \in DOMAIN block_out :
            block_out[v] # ZeroKey =>
                /\ Upper32(block_out[v]) # ZeroId
                /\ Lower32(block_out[v]) # ZeroId
                /\ Upper32(block_out[v]) # Lower32(block_out[v])

(* ------------ overlap of gauss_threshold_connected_components ---------- *)
\* the smallest integer that is not below 4 * sigma
CeilOfFourSigma(sigma) ==
    CHOOSE n \in 0..(4 * MaxSigma) :
        /\ n * SigmaDenominator >= 4 * sigma
        /\ (n - 1) * SigmaDenominator < 4 * sigma

\* C23: with overlap "auto" the overlap is on every axis at least
\* ceil(4 * sigma) + stitch_overlap for the sigma of every channel on that
\* axis, stitch_overlap is (1, 1, 1), and without sigmas the overlap equals
\* stitch_overlap.
C23_AutoOverlapCoversEverySigma ==
    (overlap_pc = "returned" /\ overlap.auto) =>
        /\ stitch_overlap = <<1, 1, 1>>
        /\ sigmas.given =>
              \A c \in DOMAIN sigmas.list : \A k \in 1..3 :
                  overlap.value[k] >=
                      CeilOfFourSigma(sigmas.list[c][k]) + stitch_overlap[k]
        /\ ~sigmas.given => overlap.value = stitch_overlap

\* two channels, the larger sigma belongs to the second one and 4 * sigma
\* is not an integer
C23_Witness ==
    /\ overlap_pc = "returned"
    /\ overlap.auto
    /\ sigmas.given
    /\ Len(sigmas.list) = 2
    /\ sigmas.list[1] = <<1, 1, 1>>
    /\ sigmas.list[2] = <<1, 3, 1>>
    /\ overlap.value = <<3, 3, 3>>

(* ------------------- calculate_chunk_numbers_for_box ------------------- *)
\* the voxels of the box with the given offset and size
BoxVoxels(o, sz) ==
    (o[1]..(o[1] + sz[1] - 1)) \X (o[2]..(o[2] + sz[2] - 1))
        \X (o[3]..(o[3] + sz[3] - 1))

\* the chunks of the dataset that hold a voxel of the requested box
IntersectingChunks ==
    {coord_dict[c] : c \in {d \in DOMAIN coord_dict :
        BoxVoxels(d, chunk_size) \cap BoxVoxels(box.offset, box.size) # {}}}

\* every voxel of the requested box lies in a chunk of the dataset
BoxInsideDataset ==
    \A v \in BoxVoxels(box.offset, box.size) :
        \E d \in DOMAIN coord_dict : v \in BoxVoxels(d, chunk_size)

\* the snapped box in terms of the requested one
SnappedBoxContainsRequested ==
    \A dim \in 1..3 :
        /\ box_offset[dim] % chunk_size[dim] = 0
        /\ box_size[dim] % chunk_size[dim] = 0
        /\ box_offset[dim] <= box.offset[dim]
        /\ box.offset[dim] - box_offset[dim] < chunk_size[dim]
        /\ box_offset[dim] + box_size[dim] >= box.offset[dim] + box.size[dim]
        /\ box_offset[dim] + box_size[dim] - chunk_size[dim]
                < box.offset[dim] + box.size[dim]

\* each intersecting chunk once and no other chunk
ExactlyTheIntersectingChunks ==
    /\ Range(box_chunk_list) = IntersectingChunks
    /\ Len(box_chunk_list) = Cardinality(IntersectingChunks)
    /\ \A i \in DOMAIN box_chunk_list : box_translator[box_chunk_list[i]] = i - 1

Times(l, v) == Cardinality({i \in DOMAIN l : l[i] = v})

\* the chunks whose result reports the id for the channel with the value v
Reporting(h, id, v) ==
    {c \in DOMAIN chunk_results :
        id \in DOMAIN chunk_results[c][h] /\ chunk_results[c][h][id] = v}

\* C25: after extract_voxels remap_dict[id] holds, for every channel and id,
\* one entry for each chunk result that reported the id and no other entry,
\* whatever the order in which the results were collected.
C25_OneEntryPerReportingChunk ==
    voxels_pc = "returned" =>
        \A h \in Hdf5NameSet :
            /\ h \in DOMAIN remapping_dict_pkl
            /\ \A id \in ObjectIds :
                  IF \E v \in VoxelValues : Reporting(h, id, v) # {}
                  THEN /\ id \in DOMAIN remapping_dict_pkl[h]
                       /\ \A v \in VoxelValues :
                              Times(remapping_dict_pkl[h][id], v) =
                                  Cardinality(Reporting(h, id, v))
                  ELSE id \notin DOMAIN remapping_dict_pkl[h]

\* two chunks report the same id with the same value, a third one with
\* another value, and the results were not collected in the order of the chunks
C25_Witness ==
    /\ voxels_pc = "returned"
    /\ \E h \in Hdf5NameSet, id \in ObjectIds :
          /\ Cardinality(Reporting(h, id, "a")) = 2
          /\ Cardinality(Reporting(h, id, "b")) = 1
          /\ Len(remapping_dict_pkl[h][id]) = 3
    /\ voxel_results[1] # chunk_results[0]

(* ------------------ combine_voxels: buckets and batches ---------------- *)
\* the buckets of all batches, as pairs <<batch, position in the batch>>
BatchedBuckets ==
    UNION {{<<b, i>> : i \in DOMAIN so_id_blocks[b]} : b \in DOMAIN so_id_blocks}

\* the places <<batch, bucket, position>> at which the id lies
PlacesOf(so_id) ==
    {p \in UNION {{<<bi[1], bi[2], k>> :
                      k \in DOMAIN so_id_blocks[bi[1]][bi[2]]} :
                  bi \in BatchedBuckets} :
        so_id_blocks[p[1]][p[2]][p[3]] = so_id}

\* C26: every id of the remapping dictionary lies in exactly one bucket, two
\* ids share a bucket exactly if they agree modulo 100000, every bucket is
\* part of exactly one batch and no batch holds more than stride buckets.
C26_BucketsByLastFiveDigits ==
    combine_pc = "batches" =>
        /\ \A so_id \in Range(so_ids) : Cardinality(PlacesOf(so_id)) = 1
        /\ \A x, y \in Range(so_ids) :
              (\E p \in PlacesOf(x), q \in PlacesOf(y) :
                    p[1] = q[1] /\ p[2] = q[2])
                  <=> (x % 100000 = y % 100000)
        /\ \A key \in DOMAIN so_id_dict :
              Cardinality({bi \in BatchedBuckets :
                              so_id_blocks[bi[1]][bi[2]] = so_id_dict[key]}) = 1
        /\ Cardinality(BatchedBuckets) = Cardinality(DOMAIN so_id_dict)
        /\ \A b \in DOMAIN so_id_blocks :
              Len(so_id_blocks[b]) \in 1..stride

\* three buckets, two of them with two ids, in two batches
C26_Witness ==
    /\ combine_pc = "batches"
    /\ Range(so_ids) = SoIds
    /\ stride = 2
    /\ Len(so_id_blocks) = 2
    /\ \E bi \in BatchedBuckets :
          Range(so_id_blocks[bi[1]][bi[2]]) = {7, 100007}

(* --------------- base allocation with large component counts ----------- *)
\* a number 0 <= n < 2^31 written as a 64-bit number
AsU64(n) == <<0, 0, n \div DigitBase, n % DigitBase>>

\* the sum of the counts of the chunks at positions 1..k as a 64-bit number
RECURSIVE CountSumU64(_, _)
CountSumU64(h, k) ==
    IF k = 0 THEN ZeroKey
    ELSE Add64(CountSumU64(h, k - 1), AsU64(LocalCount(h, k)))

\* the int32 value v is the 64-bit number e
IsExactly(v, e) == v >= 0 /\ AsU64(v) = e

\* C27: the bases and max_labels equal the exact prefix sums of the counts,
\* without wrapping around or becoming negative.
C27_BasesNeverWrap ==
    Allocated =>
        \A h \in Hdf5NameSet :
            /\ \A i \in 1..NbChunks :
                  IsExactly(max_nb_dict[h][i], CountSumU64(h, i - 1))
            /\ IsExactly(max_labels[h], CountSumU64(h, NbChunks))

(* ---------------- the batches of QSUB_script and their scripts --------- *)
\* the scripts that have loaded their arguments
LoadedScripts == {i \in DOMAIN batches : script_pc[i] \in {"loaded", "done", "raised"}}
\* the scripts that have come to their end
EndedScripts == {i \in DOMAIN batches : script_pc[i] \in {"done", "raised"}}

\* C28: the script of every batch reconstructs params[i], element
\* for element and in order, and writes exactly one result file, at the out
\* path of the batch.
C28_ArgsAndOneResultFile ==
    /\ \A i \in LoadedScripts : args[i] = batches[i]
    /\ \A i \in EndedScripts : written[i] = {ThisOutPath(i)}

(* ---------------------------- sparsify_skelcv -------------------------- *)
\* the nodes sparsify_skelcv has removed so far
RemovedNodes == skel.nodes \ skel_nx.nodes

\* C29: sparsify_skelcv removes only nodes whose degree in the input
\* skeleton is 2, never a leaf and never a branch node of the input, in
\* whatever pass.
C29_OnlyInputDegreeTwoRemoved ==
    skel_pc # "not called" =>
        \A n \in RemovedNodes : Degree(skel, n) = 2

(* ------------- two concurrent invocations of QSUB_script --------------- *)
\* the job names differ within their first ten characters
NamesDiffer == Prefix(job_names[1], 10) # Prefix(job_names[2], 10)

\* the jobs of the invocation that are in the queue
OwnListed(k) == {j \in QstatJobs : j[1] = k}

\* C30: with job names that differ within their first ten characters the
\* wait of an invocation can end as soon as its own jobs have left the queue,
\* whatever jobs of the other invocation qstat still lists, and it does not
\* end while a job of its own is listed.
C30_WaitsForOwnJobsOnly ==
    NamesDiffer =>
        \A k \in Invocations :
            /\ (inv_pc[k] = "polling" /\ OwnListed(k) = {}) => NbLinesOf(k) = 0
            /\ inv_pc[k] = "returned" => OwnListed(k) = {}

(* ------ apply_merge_list, extract_voxels: slices and job runner guard ---- *)
\* the path indices of the slice handed to the entry at position i
SlicePaths(i) == path_slices[i][2]..(path_slices[i][3] - 1)

\* the slices are pairwise disjoint and together hold every path index
DisjointAndCovering ==
    /\ \A i, j \in DOMAIN path_slices :
           i # j => \/ path_slices[i][3] <= path_slices[j][2]
                    \/ path_slices[j][3] <= path_slices[i][2]
                    \/ path_slices[i][3] <= path_slices[i][2]
                    \/ path_slices[j][3] <= path_slices[j][2]
    /\ \A p \in {0, NbVoxelRelPaths - 1} \cup
               UNION {{path_slices[i][2], path_slices[i][3] - 1} : i \in DOMAIN path_slices} :
           (0 <= p /\ p < NbVoxelRelPaths) =>
               \E i \in DOMAIN path_slices : p \in SlicePaths(i)
    /\ \A i \in DOMAIN path_slices :
           \/ path_slices[i][3] = NbVoxelRelPaths
           \/ \E j \in DOMAIN path_slices : path_slices[j][2] = path_slices[i][3]

\* C31: for every list of distinct chunk ids extract_voxels builds the slices
\* without an index outside block_steps, and the slices of the chunks are
\* pairwise disjoint and together cover all voxel storage paths.
C31_SlicesPartitionThePaths ==
    guard_fn = "extract_voxels" =>
        /\ guard_pc # "IndexError"
        /\ guard_pc \in {"run", "returned", "Exception"} =>
               /\ Len(path_slices) = Len(guard_chunk_list)
               /\ DisjointAndCovering

\* C36: when qsub parameters are given and QSUB is not available, the
\* exception is raised with the persisted state as it was at the call: no
\* merge table written, no temporary dataset folder deleted or created.
C36_ExceptionLeavesDiskAlone ==
    guard_pc = "Exception" => disk = disk_at_call

(* ------------------ QSUB_script: the end of the polling ---------------- *)
\* every job the call has submitted leaves the queue again
EveryJobLeaves == \A i \in 1..MaxParams : [](i \in Listed => <>(i \notin Listed))

\* C35: a call with empty ident returns path_to_out if every job it submits
\* leaves the queue again, finished or failed, and no other entry of the
\* queue holds the first ten characters of its job name.
C35_PollingEndsWhenJobsHaveLeft ==
    (Len(ident) = 0 /\ [](~other_listed) /\ EveryJobLeaves) =>
        <>(qs_pc = "returned")

\* the call has returned from the polling loop after two or more jobs, one
\* finished and one failed
C35_Witness ==
    /\ qs_pc = "returned"
    /\ Len(ident) = 0
    /\ ~other_listed
    /\ \E i, j \in DOMAIN job : job[i] = "finished" /\ job[j] = "failed"

(* -------------------- QSUB_predict_axoness_semseg ---------------------- *)
\* C37: the script leaves a result file only when the prediction of every SSV
\* of its batch has succeeded: with a failed SSV there is no result file the
\* job runner would take for a completed batch.
C37_ResultFileOnlyWithoutFailedSsv ==
    path_out_file = "written" => failing_ssvs = {}

(* --------------------- predict_dataset, pred_dataset ------------------- *)
\* the prediction of the chunk is there: made by this call, or kept from an
\* earlier run when overwrite is off
PredictionComplete(c) ==
    pred_chunks[c] = "predicted" \/ KeepsEarlier(pred_chunks[c], overwrite)

\* C38: predict_dataset has returned only when the prediction of every chunk
\* of the dataset is complete, with one GPU and with several GPUs.
C38_ReturnsAfterEveryChunk ==
    (call_stack[1] = "predict_dataset" /\ predict_pc = "returned") =>
        \A c \in PredChunks : PredictionComplete(c)

\* C39: pred_dataset hands its arguments to predict_dataset: the frame it
\* calls is one of predict_dataset, and the call does not end in an
\* exception of its own.
C39_AliasCallsPredictDataset ==
    call_stack[1] = "pred_dataset" =>
        /\ Len(call_stack) > 1 => call_stack[2] = "predict_dataset"
        /\ predict_pc # "RecursionError"

====
